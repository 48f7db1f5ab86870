# TLA+ models of COVE's SpMV operators

This directory models the SpMV operators, converters, codecs, drivers, the
conjugate-gradient benchmark and the campaign runner under `structural/` in TLA+, checks
them with TLC on small instances and proves with TLAPS, for every value of the
constants, that both load-balanced operators are correct, that the host's converter is
and that the GPU converter's two kernels agree, and what the drivers, the benchmark and
the campaign report. `PROJECT.json` maps every definition to the lines it stands for;
file names below are relative to `structural/`, with `include/structural/` left out for
headers.

To check one configuration, run `tlc -config FlagLbSpmv.cfg MCFlagLbSpmv` (the
table under *Runs* pairs modules with configurations); to check the proofs,
run `tlapm` on each of the `*_proofs.tla` modules.

## 1. The system and its parts

COVE multiplies sparse matrices with vectors on a GPU. A matrix is read from a
MatrixMarket file into CSR, converted to **BitBSR** (8x4 blocks, a 32-bit
occupancy map per block, the nonzeros packed in block order), optionally split
into BitBSR blocks and a CSR residual, its values optionally compressed, and
multiplied by one of several kernels. Drivers string this together; Python
scripts run campaigns of programs over many matrices.

| Component | State | Operations | Interacts through |
|---|---|---|---|
| BitBSR and CSR (`bitbsr.hpp`, `csr.hpp`) | the arrays of a matrix | validate, decode, drop stored zeros | passed by value between all others |
| MatrixMarket loader (`matrix_market.hpp`) | row counts, fill cursors, entries | two readings of the file, sort and merge | the file, opened twice |
| Host conversion (`convert.hpp`) | per-row plans, offsets, bitmaps, values | three OpenMP loops with allocations between | threads share the output arrays |
| GPU converter (`gpu_convert.cuh`) | reused workspace, device matrix | upload, count, scan, fill, download | warps share the output arrays |
| Split (`csr_bitbsr_split.hpp`) | both parts, counters, cost model | walk blocks, move or keep, assemble | output goes to the hybrid operator |
| Layout and 8x4 operators (`operators/bitbsr_spmv_8x4_common.cuh`, `_raw.cuh`) | packed positions with flag bits, work items, `y` | pack, build layout, call | warps share rows of `y` |
| Hybrid operator (`main_gpu_csr_bitbsr_spmv.cu`) | items, long-row chunks, residual, outliers, `y` | prepare, call in two modes | kernels and cuSPARSE share `y` on one stream |
| Value codecs (`gpu_value_codecs.cuh`, `value_compression.hpp`) | codebooks, codes, sign masks, block scales, outliers | build, decode in the kernel | builder and kernel agree on packing |
| Operator plan, CLI, load-balance policy (`spmv_operator_plan.hpp`, `spmv_cli_options.hpp`, `load_balance_policy.hpp`) | options, operator spec | parse, plan, promote, tune | consulted at three places of a run |
| SpMV family driver (`main_gpu_spmv.cu`) | stage of a run, report | load, convert, choose, prepare, call, verify | all of the above |
| Hybrid driver (`main_gpu_csr_bitbsr_spmv.cu`) | stage of a run, verdict, report | the same, then a second run with a codec | both runs share `y` and the report |
| Campaign runner (`scripts/run_external_baseline_campaign.py`) | shards, threads, children, CSV and log files | deal, run, append, collect, combine | files that outlive the process |
| CG benchmark (`src/bench_cg_solve.cu`) | iterate, recurrence, best residual, counters, two reports | generate or load, one curve per variant, refinement, flexible CG, inner CG | the exact operator judges what the variant operators drive |
| Analysis (`src/main_analyze.cpp`, `profile.hpp`, `stats.hpp`, `value_stats.hpp`, half of `value_compression.hpp`) | none | statistics of structure and values, which codecs apply at what cost | foretells what the drivers build, by code of its own |
| Sweeps, accuracy benchmarks, plots, tests | not modelled, see section 8 | | |

What is hard in it, and what makes each part correct:

* **Writes by many warps.** A row of `y` is stored plainly when one warp owns
  it and added to atomically when several do. Which of the two is decided by a
  flag bit in the packed position of a warp's first block, set by another
  kernel that ran long before. Correct: every contribution to a row is in it
  exactly once after every call, in every order of the warps.
* **Counts that place writes.** Both converters, the layout and the loader
  count first and write later by other code. Correct: both passes agree, each
  writer stays in its range, and every cell is written.
* **Reuse.** Layouts are rebuilt over old flags, the conversion workspace is
  reused, `y` keeps the previous result. Correct: nothing of the old is read.
* **Decisions taken in several places.** The automatic codec judges a histogram
  on the device, the builder the values on the host; the operator is planned
  twice and the load balance decided by a third function. Correct: no stage
  contradicts an earlier one, and gates called exact are exact. An analysis
  program foretells by a third set of formulas which codec applies and what it
  costs. Correct: it foretells what the builders do.
* **Numbers that are not numbers, and numbers of another iterate.** The CG
  benchmark folds residuals with `std::min`, stops on the residual of a
  recurrence and reports on the true one. Correct: what is reported belongs to
  the `x` it is reported of.
* **Processes and files.** A matrix file may be replaced between two readings;
  a campaign has children that hang, threads that raise or share a file, and may
  be killed.
  Correct: what is logged as done is durable, and what says it is complete is.

The full list of hazards, each at its line with the properties that would catch
it, is in `PROJECT.json`.

## 2. The modules

```
SpmvCall                       what a call promises (abstract)
   ^ implemented by FlagLbSpmv and HybridSpmv
PrefixSums                     scan, ceil_div                -> PrefixSums_proofs
   BitBsr8x4                   the device matrix as the operators see it, AtomicAdd, Store
      FlagLbSpmv               pack, layout, calls           -> FlagLbSpmv_proofs
      HybridSpmv               the hybrid operator           -> HybridSpmv_proofs
   BitBsrFormat                BitBSR and CSR as host structures, Decode, Entries, Represents
      HostConvert              the host's converter          -> HostConvert_proofs
      WarpDirect               the GPU's converter           -> WarpDirect_proofs
      Split                    the CSR/BitBSR split and the other residual formats
      ValueCodecs              builders
         CodecSpmv             the operators of every codec
            SpmvDriver         one run of the SpMV driver
         ValueAnalysis         what the analysis says of the values
      StructureStats           what it says of the structure
               AnalyzedSpmv    SpmvDriver beside both: report against builders
CgSolve                        one run of the CG benchmark   -> CgSolve_proofs
MatrixMarket                   the loader
HybridRun                      one run of the hybrid driver  -> HybridRun_proofs
BaselineCampaign               the external baselines        -> BaselineCampaign_proofs
```

Each `MC*` module extends the module it is named after (`MCSpmvDriver` extends
`AnalyzedSpmv`) and defines the small inputs; the modules to the right of an arrow hold theorems. A
definition whose comment begins with *Fault:* is never used by a
specification. It is a plausible bug in the definition after it, and
`PROJECT.json` names it under "mutants": put in that definition's place, it
makes the named property fail.

**`SpmvCall`** has `due`, `y` and `call`. `y[r]` is the bag of contributions
summed into row `r`; a call zeroes `y` (`Begin`), adds missing contributions in
any groups (`Add`), and returns when each row holds exactly what it is due
(`Return`). A sum is kept as a bag, so that an update lost, repeated or left
over from another call shows, whatever the values.

**`FlagLbSpmv`** is the main module. A contribution is a block with the value
position its warp decodes it from, so wrong value starts show too.

| Action | Code |
|---|---|
| `Pack` | `pack_bitbsr8x4_positions` writes positions with flag 0 |
| `RejectLayout` | the parameter checks of the layout builder throw |
| `BeginLayout` | count kernel, scan, allocation of items, clearing of flags, launch of the fill kernel |
| `FillStep(br)` | one turn of the loop of a block row's fill thread |
| `FillSync` | the host's wait |
| `Launch`, `Warp(w)`, `Sync` | zero `y` and launch; one warp's sum and its writes; the wait |

A warp's traversal is one step: it reads only what no step of the kernel
writes, and every row of a block row is written by one lane of the warp in one
store or one `atomicAdd`, so an order of the rows inside a warp could be
told apart only by a reader of `y` during the call, and there is none. Flags
are per-block booleans: on the device each is a bit of its own word.

**`HybridSpmv`**: `Prepare` is the host-built layout (`Items`, `Flags`,
`LongChunks`); `Launch(correct)` starts a call on raw or quantised values;
`Warp` is an item warp or a long-row chunk warp; `LaunchCorrection` and
`CorrectionThread` are the outlier kernel, `ResidualPass` the cuSPARSE call
(external: `y = A x + y`), both queued behind the bulk kernel on its stream.

**`BitBsrFormat`** has both formats with their `validate` functions as the
predicates `IsBitBsr` and `IsCsr`, and `Represents(bitbsr, csr)`: valid, same
shape, same nonzero entries. Bitmaps are sets of bits, `Rank` is the population
count below a bit.

**`HostConvert`**: one action per stage of an iteration of each OpenMP loop
(`Scan`; `Place`, `PlaceEnd`; `FillStart`, `SkipZero`, `Fill`, `FillEnd`) for
every block row, with the sequential parts between the loops (`Allocate`,
`EndPlace`, `Validate`). Its iterations interleave freely until the barrier.

**`WarpDirect`**: `Convert` uploads into a workspace that keeps what resizing
does not drop; `Count` and `Fill` are one warp's turn over one block column in
each kernel; `Scan` and `Sync` are the host's.

**`Split`**: `Start` (argument checks), `StartRow`, `MoveToResidual`, `Keep`,
`EndRow` for each block in order, `Assemble` with validation. The blocked COO
and SELL residuals are operators on the result.

**`MatrixMarket`**: `CountEntry`, `EndCount`, `Reopen`, `FillEntry`, `EndFill`,
`CoalesceRow`, `Finish`, with `Replace` exchanging the file under the name at
any time and `ReadFails` for what the parser throws on. A second reading that
overruns the first one's counts writes out of bounds; the state is then
`"undefined"` and nothing is claimed of it.

**`HybridRun`** and **`SpmvDriver`** follow a process from argument list to
exit code, one action per stage (`ParseOption`, ..., `VerifyRaw`,
`ChooseCodec`, `JointCall`, ..., `Report`; `ReadArgument`, `PlanOperator`,
`Load`, `Convert`, `AutoSelect`, `Balance`, `PrepareCodec`, ..., `Call`,
`VerifyAndReport`), with `Throw` for exceptions. A call is one step there,
which is sound because `FlagLbSpmv` and `HybridSpmv` implement `SpmvCall`: the
drivers look at `y` only between calls.

**`ValueCodecs`** holds the builders of every codec the SpMV driver offers
(all-one, one value, one magnitude with signs, 2-, 4-, 16-, 256- and
65536-entry codebooks, fp16, bf16, BFP8, BFP8 with outliers, BFP4, scalar and
logarithmic k-means codebooks).

**`CodecSpmv`** has the operators over them: the size checks and early returns of
a call, `work_items` with the `value_begin` the fill kernel counts up by
popcounts, the value or code a lane decodes for a bit of its tile, and the sum
of a walk over an item. `run_bitbsr_spmv_once` is the dispatch, and what
`Call` of `SpmvDriver` puts into `y`.

**`ValueAnalysis`** and **`StructureStats`** are the reports of
`structural_analyze` as operators on a matrix. **`AnalyzedSpmv`** adds no
behaviour: it states, at the moment the driver has loaded its matrix, what the
report about that matrix must have to do with the builders.

**`CgSolve`** is the benchmark from argv to exit code. `Load` generates one of
the synthetic matrices entry by entry or takes any file; a curve is a sequence
of `Iterate` (or a `Breakdown`), a solver a loop of `RefineTest` or
`FlexibleUpdate` with the inner CG (`InnerStep`) inside; `WriteCurves`,
`NextRun` and `WriteSolvers` are main's. Residuals are magnitudes on a small
scale, or NaN; which magnitude the arithmetic yields next is free, except that
zero and NaN go on as they do in floating point. So the runs include
every curve that stagnates, rises, or loses what it had reached.

**`BaselineCampaign`**: after `Start`, main sorts the matrices and deals them, a
`CheckExists` and a `Stat` for each matrix and either purpose, so that a file may
vanish between any two (`Stat` then raises), and starts the threads (`Submit`).
Every GPU's worker has `OpenCsv`, `OpenLog`, `NextMatrix`, `Launch`, `LaunchFails`,
`TimesOut`, `LogDone`, `WorkerReturns`; `ChildEnds` and `OutputUnreadable` are the
child's end; main has `Collect`, `Fail` and, for each of the three reports, a step
that opens and one that writes it (`Report`). `Killed` ends the
process at any moment and drops the buffers, `FileVanishes` removes a matrix
file. Shard files are named after the GPU, so `shard` is indexed by it: the
workers of a GPU named twice write at offsets of their own into one file that
each of them empties (`WrittenAt`). Rows are cells of one size there; the log
of such workers is not followed.

## 3. Runs

Every run explores its state space completely. The size is the number of
distinct states.

| Run (module, cfg) | Instance | Size |
|---|---|---|
| `flag_lb_spmv` (`MCFlagLbSpmv`, `FlagLbSpmv`) | every matrix of up to 5 rows in block rows of 2 and up to 4 blocks, chunks 0, 1, 2, 4, thresholds 1, 3, two layouts, two calls, load balanced or not | 14001 |
| `hybrid_spmv` (`MCHybridSpmv`, `HybridSpmv`) | 3 rows, up to 3 blocks, residual rows empty, short, long, up to two outliers, both modes, two calls | 33248 |
| `host_convert` (`MCHostConvert`, `HostConvert`) | 5x3 matrices in 2x2 blocks, sorted or not, duplicates, stored zeros | 10394 |
| `warp_direct` (`MCWarpDirect`, `WarpDirect`) | matrices up to 5x3, rows in order or not, two conversions over one workspace in every order | 2762 |
| `split` (`MCSplit`, `Split`) | 3x3 matrices in 2x2 blocks, thresholds -1 to 4, legal, illegal and tying cost models, slice heights 1, 2, 4 | 12336 |
| `matrix_market` (`MCMatrixMarket`, `MatrixMarket`) | files of up to three lines, every symmetry, real and pattern fields, refused fields, one replaced by another with the same header or another | 56366 |
| `hybrid_run` (`MCHybridRun`, `HybridRun`) | every list of up to three options, legal, illegal and by other names; dictionaries of 2 and 4 for 256 and 65536 | 33305 |
| `campaign` (`MCBaselineCampaign`, `BaselineCampaign`) | two workers on two GPUs or on one named twice; one campaign of two matrices and two baselines, two in one directory of one baseline; one file lost | 308749 |
| `spmv_driver` (`MCSpmvDriver`, `SpmvDriver`) | every list of up to three arguments, thirteen matrices, one warm-up and one timed call | 114166 |
| `cg_solve` (`MCCgSolve`, `CgSolve`) | two curves of up to six iterations, refinement and flexible CG of two outer and two inner ones, generated matrices of up to four rows with every choice of weights | 193567 |
| `coalesced_count`, `joint_gate` | as the run of their module; each stops at the disagreement of section 6 | |

What the properties say:

* `flag_lb_spmv`. `LayoutTiles`: the items of a finished layout cut the blocks
  of every block row into disjoint, non-empty runs with the right value starts.
  `FlagsFit`: the flag of an item's first block is set exactly when its rows
  have another writer, also after a rebuild with other parameters.
  `ExactlyOnce`: after a call each row holds each block of its block row once,
  decoded from the right position. `ImplementsSpmvCall`: the refinement.
  `FillStaysInRow`: a fill thread keeps to its own blocks, slots and values,
  and has a slot for what is left of its row.
* `hybrid_spmv`. `RaceFree`: no warp stores plainly to a row that another warp
  of the same kernel writes. `ExactlyOnce` and `ImplementsSpmvCall` as above,
  for blocks, residual entries and outliers.
* `host_convert`, `warp_direct`. `Converted`: the result represents the input, if
  its rows are in order; what the device makes of duplicates in such a matrix
  does not validate. The properties after it are of unordered rows too.
  `FailsOnDuplicates`: the host conversion fails exactly on them.
  `RacingWritesAgree`: two iterations that write one offset write the same
  number. `WarpsStayApart`: every fill warp writes exactly its own range.
  `RoundTrip`: a download, uploaded again, is the same device matrix.
* `split`. `Partition`: the parts make up the matrix and share nothing, and a
  legal split never fails its own validation.
  `GateMinimises`: no split within the threshold costs less by the model, and
  at a tie the block stays.
  `FormatsKeepEntries`: COO and SELL hold the entries of the CSR residual.
* `matrix_market`. `Loaded`: the file of the second reading, unchanged or put in
  the first one's place, becomes exactly the matrix it means, unless its entries
  fall into other rows than were counted. `ReadingsAgree`: two readings of one
  content, whatever the path names by then, fill every row that was counted.
* `hybrid_run`. `VerdictIsOfRawRun`: the exit code is the verdict on the
  original values although the codec run overwrites `y`. `LosslessIsExact`:
  both parts decode to the very values.
* `campaign`. `CombinedComplete`: a completed campaign has a row of its own for
  each matrix and baseline, whatever became of the shard files, and summaries
  of the same rows. `ReportsAgree`: however a campaign ends, the three reports of a
  directory can be told apart: a failed campaign has touched none, none is of a later
  campaign than the one written before it, and a summary of the campaign of
  combined.csv counts its rows. `DoneRowsDurable`: a row logged as done survives a kill, and
  the shard file of a worker that ended has its rows, if no GPU is named twice.
  `ShardsBalanced`: no GPU is loaded beyond another by more than the
  last matrix it was dealt, by the sizes found while dealing. `CampaignEnds`: a
  campaign that starts to deal ends, although a child may hang.
* `spmv_driver`. `LosslessIsExact`: the exact gate implies the exact product.
  `LossyErrorBounded`: every lossy codec is within its rounding although scales
  are rounded and mantissas clamped. `AutoSelectionRuns`, `AutoSavesBytes`: the
  automatic choice always builds, in the bytes it reckoned with.
  `PromotionMatchesPolicy`: a promotion is reported exactly when the promoted
  policy is in effect. `CallSumsDecodedValues`: in every codec, layout and cut,
  a call sums the decoded value of each entry once. (That the checks the code
  calls internal errors never fail is a part of `AutoSelectionRuns`.)
  `AnalysisForetellsBuilders`: the report calls a codec applicable exactly when
  its builder accepts the matrix, never promises more bits than are stored
  (signs excepted, section 6), and counts the values that rounding changes.
  `ReportFitsMatrix`: percentiles, widths and position bits against definitions
  of their own.
* `cg_solve`. `CurveReportsHistory`: first iteration within each tolerance and
  smallest residual, of the true residuals. `PlateauMeansNoProgress`: a curve is
  cut short only after a whole window without progress. `VerdictIsOfSolution`:
  "OK" is said of the true residual of the `x` returned. `WorkCounted`: outer
  iterations are updates of `x`, inner ones within their bound.
  `SyntheticIsPositiveDefinite`.

Why the bounds are enough to be interesting:

* Three block rows, the last ragged, give an empty, a short and a cut row in
  every order; four blocks with chunks 1, 2, 4 give exact and clipped last
  chunks, thresholds on both sides of the chunk. The second layout meets the
  flags of the first, the second call the `y` of the first. `FlagLbSpmv` needs
  no larger instance, since its theorems hold for all of them.
* In `hybrid_spmv` the tau of 2 and chunks of 2 entries leave rows below, at
  and above the bound; both modes, both kinds of call and their succession are
  in two calls.
* The converters' shapes are cut off below and to the right and have block rows
  that share value boundaries with empty ones; two conversions reach arrays
  that shrink, grow and stay.
* Codebooks of 17, 18 and 21 entries stand for 256, 256 and 65536, so that
  matrices of 32 values are just at, below and above each; the block shape is
  the true 8x4. The tuned policy's calibration is scaled alike. Three arguments
  are enough for an option, one that contradicts it, and one repeated.
* A window of one iteration and three magnitudes beside the tolerances and 1.0 let
  a curve reach a tolerance and leave it, plateau, creep, and turn into NaN
  within six iterations; two outer iterations meet the bound both converged and
  not, and each run starts after another.
* A thirteenth matrix with block rows of no, one, two and three blocks tells the
  percentiles apart; the others have columns on both sides of the offset limits.
* Three matrices on two GPUs give shards of different lengths; two campaigns
  meet the files of the one before. How many campaigns a plan may start is part of
  the plan (`runs`): two baselines after one another need only one.

`CHECK_DEADLOCK FALSE` is set for `campaign` and `spmv_driver` only: both end.
The others end too and have an explicit stuttering action for it (`Finished`,
`Over`, `Ended`), so that a stop anywhere else is an error.

## 4. Fairness

| Module | Assumed | Justification |
|---|---|---|
| `BaselineCampaign` | weak fairness of `Main` and of each `Worker(g)` | threads are scheduled and the time limit fires; nothing is assumed of the children, which may hang for ever |

The other modules state safety only. Their loops are bounded by the input, a
kernel is a bounded number of steps of every warp, and the host waits for nothing
but the device: that they end would follow from fairness alone, whatever the code.

## 5. What is proved

Each theorem holds for every value of the constants that the named assumptions
of its module allow. Every inductive invariant was checked by TLC on the run of
its module before it was proved; none of the properties is inductive by itself.

| Module | Theorems | Statement |
|---|---|---|
| `FlagLbSpmv_proofs` | `Inductive`, `TypeCorrect`, `FillKeepsToItsRow`, `Tiling`, `FlagsAgree`, `Exact` | `[]IInv`, `[]TypeOK`, `[]FillStaysInRow`, `[]LayoutTiles`, `[]FlagsFit`, `[]ExactlyOnce` |
| | `Refinement` | `Spec => ImplementsSpmvCall` |
| `HybridSpmv_proofs` | `Inductive`, `NoRace`, `Exact` | `[]IInv`, `[]RaceFree`, `[]ExactlyOnce` |
| | `Refinement` | `Spec => ImplementsSpmvCall` |
| `HostConvert_proofs` | `Inductive`, `FailureIsDuplicates`, `WritesAgree`, `ConversionRepresents` | `[]IInv`, `[]FailsOnDuplicates`, `RacingWritesAgree`, `[]Converted` |
| `WarpDirect_proofs` | `Inductive`, `WarpsKeepToTheirRows`, `CopiedBackIsSame`, `ConversionRepresents` | `[]IInv`, `[]WarpsStayApart`, `[]RoundTrip`, `[]Converted` |
| `CgSolve_proofs` | `Inductive`, `CurvesReportHistory`, `CutsAreStalls`, `VerdictsHold`, `WorkIsCounted`, `GeneratedIsDefinite` | `[]IInv`, `[]CurveReportsHistory`, `[]PlateauMeansNoProgress`, `[]VerdictIsOfSolution`, `[]WorkCounted`, `[]SyntheticIsPositiveDefinite` |
| `HybridRun_proofs` | `Inductive`, `VerdictOfRawRun`, `DictionaryIsExact` | `[]RunInv`, `[]VerdictIsOfRawRun`, `[]LosslessIsExact` |
| `BaselineCampaign_proofs` | `Inductive`, `RowsAreDurable` | `[]CampaignInv`, `[]DoneRowsDurable` |

`PrefixSums_proofs` holds the facts about the arithmetic they all lean on:
`PrefixSumSteps` (the recursive scan adds one count per row), `StepwiseMonotone`,
`RowOfIndex` and `RowOfIndexUnique` (each slot or block has one row),
`CeilDivCounts` and `ChunksTile` (the chunks of a range are disjoint and leave
nothing out), `SlotsOfCounts` (the slots of a scanned array, one by one), `SameSteps`
and `NoSteps` (scans of equal counts are equal, and of no counts level), `Ranks` (a
finite set of numbers has a member for every rank, the number of its members below
it), `OneToOne` (sets of equal size under a one-to-one map), `Coordinates` with
`QuotientAndRest` and `NextMultiple` (a cell number has one row and one column), and
`LeastNatural`: induction is done with the least counterexample, because the
library's induction theorems take an operator as a parameter.

**`FlagLbSpmv`** rests on `BlockRowsAssumption` (a block row has at least
one row), `MatricesAssumption` (each matrix is valid BitBSR, which the
converters establish), `ParamsAssumption` (parameters are integers, legal or
not) and `BoundsAssumption` (the bounds are naturals). `IInv` has three parts:

* `ControlInv`: types, and which of the arrays exist at which stage.
* `LayoutInv` follows each fill thread. `ThreadInv`: the thread's value position
  is the start of its current block, and its slot is the row's first slot plus
  the number of chunks taken, so that it arrives at the end of its row exactly
  when it arrives at the row's last slot. `FilledInv`: the items written so far
  cut the blocks before the current one, carry the row's flag, and the flags of
  the blocks ahead are clear. This is where the count kernel's `ceil_div` and
  the fill loop's clipping meet (`CeilDivCounts`, `FillTurn`).
* `KernelInv` says what is in `y` while warps are pending: a block is in its rows
  once if its warp has run and not at all otherwise. It is preserved because a
  plain store happens only when the warp is alone on its rows (`WarpsFit`, which
  `FinishedLayout` derives from a finished layout and `KernelMayRun` from either
  kind of operator).

For `Refinement`, `Launch` is `Begin`, a warp is an `Add` or a stutter, `Sync` is
`Return`, and all else stutters.

**`HybridSpmv`** (`SplitsAssumption`: both parts of a split are valid and their
positions fit; `OptionsAssumption`: chunks are positive). The host builds the layout
in one go, so `LayoutInv` only says that it is the one the options give, and the
argument is about what that is: `ItemsAre` and `ChunksAre` say which item or chunk
is in which slot, `OneWarpEach` that no contribution has two warps, `WarpsAdd`
that each has one, and `SharedIsAtomic` that a row with two writers has only
atomic ones: a block row that is cut, a long row with chunks beside its item.
`KernelInv` follows `y` through the bulk kernel, the residual pass and the
correction; a plain store finds nothing of this call in the row because every
other contribution of it is the warp's own.

**`HostConvert`** (`BlockShapeAssumption`, `CsrAssumption`: matrices that `validate`
accepts, sorted or not, with duplicates or without). `IInv` has a part per loop.
`ScanInv`: a scanned row's counts are the blocks and the entries it has, which are sets
of its cells. `LayoutInv`: the offsets are the scans of those counts; a block row's last
offset is the next one's first, so that one cell has two writers, and
`WritesAgree` is that both write the same (`SharedCell`, `OffsetUnique`). `PlaceInv` and
`FillInv`: a finished row's blocks are as `BlockInv` says, a running row's as far as its
plan goes. Threads stay apart because the ranges of the offsets do (`CellsApart`).
`ConversionRepresents` then reads the arrays back: a value's rank in its block is the
number of set bits below its own (`Ranks`, `BitsInOrder`, `EntryPlaced`), each block
decodes to the entries it was built of (`DecodedIsEntries`), and a conversion fails
only at a bit that two entries share, which are duplicates (`SameBit`).

**`WarpDirect`** (`BlockShapeAssumption`, `CsrAssumption`: what `validate` accepts).
The two kernels share no code for how many blocks a row has. What they share is
the matrix, and the lanes' positions depend on nothing else: `IsWalk` is the
sequence of positions of a warp, `CountInv` says that a counting warp that has
counted `n` blocks is `n` turns on its walk and that the number it leaves is the
length of the whole walk, `FillInv` that a filling warp's block is as far behind the
row's first as it has made turns. Values are counted by the set of entries that the
lanes have passed (`LanesTurn`: each turn adds what was not in it; `BehindCounts`: it
is the whole block row when no lane is at work). `RowWritten` and `BlockWritten` say
that each turn a filling warp has made left its block and its values where they are
due, and a scanned layout gives each row a place of its own. `UploadKeeps` (with
`KeptPositions` and `RemovedEntries`) shows that dropping the stored zeros leaves a
valid matrix with the same entries in the same order, duplicates included, so that
all of this is about what is uploaded.

`CopiedBackIsSame` needs no more: the device takes a row's first value position from
the row pointers, the host rebuilds it as a sum of popcounts, and the two agree
where the sums do at all (`BitsBefore`, `BlockSums`, `RowStarts`). For
`ConversionRepresents` the rows are in order: then turns go from block column to block
column (`NextColumn`, `TurnsAscend`), and a turn without duplicates sets one bit per
entry in the order of its values (`SortedTurn`, `BitsInOrder`), so that the rebuilt
starts are the written ones (`BlockStarts`) and a block decodes to the entries of its
turn (`EntryDecoded`, `DecodedIsEntries`, `ValuesStored`). Duplicates stand side by
side in such a row and fall into one turn, which then has more values than bits: the
sums of popcounts come out short and the download is refused (`DuplicatesShow`).

**`CgSolve`** (`MagnitudesAssumption`, with a progress margin below 1.0 as in the
code; `BoundsAssumption`, `JobsAssumption`). `CurveInv` says that the running values
of a curve summarise its history, NaN left out as `std::min` and the comparisons
leave it out, and that nothing since the last improvement was one. `SolverInv`
counts work by where the solver stands: the flexible CG charges inner iterations
before the outer one they belong to, so that the bound holds between updates only
with one outer iteration to spare. `GeneratedIsDefinite` (`SpecsAssumption`: a positive
shift, weights that are numbers) needs sums over sets: `FoldSet` takes the elements in
an order of its own, and `SumsExist`, `SumSteps` and `SumsAgree` say that its recursion
has a solution, that any element may be taken out first, and that sets that correspond
have equal sums. A row is then its weights, one per pair inside the band it is in
(`OffDiagonalIs`), and the diagonal, which the code sums apart from the row, over the
pairs with the row first and those with it second, meets their sum (`PartsAdd`,
`DiagonalIs`, `RowHolds`), sorted by rank (`SortedRowIs`).

**`HybridRun`** (`MatricesAssumption`, `DictAssumption`, `TokensAssumption`: numbers on
the command line are integers, positive or not). `CallsInv` says that `y` is one whole
call of the current codec, by part, and that the chosen dictionary holds every
value; `InternedHoldsAll` and `DecodesExactly` say that interning finds each value of
both parts and that an index as wide as the dictionary asks for wraps nowhere.

**`BaselineCampaign`** (`CampaignAssumption`). `Durable(g)` cuts the rows a worker
holds in memory into those in its shard file and those in the writer's buffer, so
that what a flush writes lands right behind what is there (`WrittenBehind`). A kill
drops the buffer; it cannot drop a row that was announced. Rows carry the
campaign they are of, because a campaign that starts empties a shard file before it
empties its log.

Only model-checked:

* Liveness under fairness (`CampaignEnds`), which the prover cannot state the induction
  for.
* What folds over sequences and sets compute for all data: `CombinedComplete`,
  `ReportsAgree` and `ShardsBalanced` (bags and sums of the dealt shards), the codecs,
  their gates and the analysis (`SpmvDriver`, `AnalyzedSpmv`).
* `MatrixMarket`, whose cursors are sequences and whose merge is a fold, and `Split`,
  whose cost model is one. Section 9 has those that are within reach.

## 6. Disagreements between code and documents

* **`coalesced_duplicates`** (`matrix_market.hpp:380`) is expanded entries minus
  final nonzeros; `docs/data-format.md:62` says it records how many expanded
  entries collapsed. A file whose entries all have cells of their own, one of them
  a stored zero, gets a count of one (`coalesced_count`).
* **NaN and the joint gate** (`spmv.hpp:83`): `std::max` keeps its first argument
  when the second is NaN, so that a row that became NaN leaves the maximum
  described at `spmv.hpp:67` unchanged, and the gate passes (`joint_gate`).

Seen while modelling, and not the subject of a run:

* `main_gpu_csr_bitbsr_spmv.cu:103` refuses every `--residual-format` but `csr`
  (`Refused` in `HybridRun`), while `tests/test_gpu_csr_bitbsr_spmv_cli.sh:47` and
  `:54` expect `brcoo` and `sell` to run.
* The CG benchmark calls every operator "NOT SPD" whose direction has no positive
  `pAp` (`bench_cg_solve.cu:119`). A low-precision recurrence whose residual has
  become exactly zero gets there too: its next direction is zero. The plots
  (`scripts/plot_cg_solver.py:67`) leave such a curve out.
* Refinement goes on to `max_outer` when its inner CG breaks down at once: each
  outer iteration then adds a zero correction and is counted. A second report that
  cannot be opened is left out without a word, with exit code 0.
* The GPU converter looks for no duplicates. In ordered rows they show in the
  download; in a row out of order they can stand apart, are passed in different
  turns, and become two blocks of one block column. `convert_csr_to_bitbsr` throws
  for both (`convert.hpp:148`). The loader hands over ordered rows without duplicates.
* The usage text of the CG benchmark offers definite matrices
  (`bench_cg_solve.cu:453`), and a delta or sigma of zero or less is taken without a
  check; `SpecsAssumption` leaves such shifts out.
* The gate of the analysis folds errors with the same `std::max`, and so passes a
  codec that turns values into NaN. Its `sign2` codec is reckoned with two bits per
  entry beside the value of zero, more than the masks that are built where tiles
  are dense and less where they are sparse; and it calls a matrix of ones no sign
  matrix, while the builder takes it for one.
* `bfp8_outlier` without load balancing passes the plan and fails at its first
  call; the automatic codec takes the first candidate in its list and can find the
  load-balance policy unfit only after the matrix was loaded and converted; the
  usage text lists neither `bfp8`, `bfp8_outlier` nor `bfp4`.

## 7. Abstractions

* A sum in `y` is a bag of contributions; floating-point rounding and the order of
  additions are left out. In the drivers a product is an exact integer.
* In `ValueCodecs` a value is an integer in units of 2^-8 and a decoded value in units
  of 2^-16, so that every 16-bit rounding of the values used is exact; NaN, infinities,
  -0.0 and FP32 sums are left out. A block scale goes through float to bf16 in the code;
  in the range of `MatrixAssumption` that is one rounding (`block_scale`), beyond it the
  two would have to be told apart. Stored zeros do not get this far: the loader drops
  what is zero in the precision of the run. NaN and infinities do, from the file or from
  a cast to float, and the branches of the codecs and of the analysis for them are not
  taken here. The lengths of packed positions, item row pointers and the outlier arrays,
  which an operator compares, cannot differ here (`CodecSpmv`). `HybridRun` has NaN as
  an error value, because its gate treats it in a way of its own. The centres k-means
  arrives at are a constant operator.
* Numbers that are sizes (256, 65536, one outlier in 200 values, the thousands of blocks
  of the tuned policy) are constants with small values in the runs.
* cuSPARSE is external: one step that adds the residual. The scan of the layout is the
  mathematical prefix sum. 32-bit indices are unbounded here; a matrix whose counts
  overflow them is not represented.
* Files are sequences of parsed lines; number syntax, measured times, layout of reports
  and logging are left out.
* In `CgSolve` vectors are classes (zero, finite, not finite) and norms are magnitudes;
  that CG converges, or how fast, is not a statement of the model.
* In `ValueAnalysis` the errors of probe products and the k-means centres are constant
  operators, logarithms of magnitudes are those of the scaled integers.
* In `BaselineCampaign` a report is empty or whole: a kill while its rows are
  flushed, and `manifest.json`, which is written once at the start, are left out.

Beyond the model: an exception that leaves an OpenMP region, which ends the process
(what is checked is that duplicates are found); packing positions again after a layout
was built, or using a layout with another matrix of as many block rows (no client does
either).

## 8. What is not modelled

* `src/bench_accuracy_robust.cu`, `src/check_outlier_globalnorm.cu`,
  `src/analyze_value_freq.cpp`: sequential measurement without state beyond an
  accumulator.
* `src/main_analyze.cpp`, `src/main_spmv.cpp`: reading options and printing; the
  reports and the reference products they print are modelled.
* `scripts/run_gpu_spmv_family_sweep.py`, `run_joint_sweep.py`,
  `run_csr5_sweep.py`: sequential loops over child processes; planned.
* Plotting and download scripts, matrix lists, measured results, build files.
* In modelled components: the fused and long-row kernels of the hybrid operator
  that nothing calls, the per-cell 16-bit codec, entropies and histograms of
  magnitudes, the iterations of k-means, memory accounting, storage statistics of
  a split.

## 9. Plan

Done, in this order: `SpmvCall`, `PrefixSums`, `BitBsr8x4`, `FlagLbSpmv` and its
proofs; `HybridSpmv`; `BitBsrFormat`, `HostConvert`, `WarpDirect`, `Split`;
`MatrixMarket`; `HybridRun`; `BaselineCampaign`; `ValueCodecs`, `SpmvDriver`;
`CgSolve`; `CodecSpmv`; `ValueAnalysis`, `StructureStats`, `AnalyzedSpmv`; shared
shard files and summaries in `BaselineCampaign`; the proofs of section 5.

Next, extending the model:

1. The sweeps over child processes, with what a child that fails or hangs
   leaves in their files.
2. The unified kernel of the hybrid driver with the codecs of `ValueCodecs`
   in place of its abstract decoders.

Then, proving more:

3. `Split`: `Partition` and `FormatsKeepEntries`, with the lemmas of
   `HostConvert_proofs` and `WarpDirect_proofs` on bit ranks and prefix sums.
4. `BaselineCampaign`: `CombinedComplete` and `ShardsBalanced`, with lemmas on bags and
   on what the deal of the matrices over the shards sums to.
5. `MatrixMarket`: `ReadingsAgree`, from an invariant that says of each row how many of
   its cells are filled.
