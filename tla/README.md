# Verification of the docling processor module

This directory holds TLA+ models of
`src/examples/openshift/scripts/docling_module/processor.py`. That file is the
only source in the repository. It is a sequential Python wrapper around the
docling document converter, with three parts:

* `DocumentConfig`, a mutable dataclass that callers build and may keep
  mutating.
* `DoclingPDFProcessor`:
  * construction builds a docling converter from the config. An unknown OCR
    engine raises `ValueError`.
  * `get_config` / `update_config`.
  * `validate_file`.
  * `process`: validate, then convert, then `_extract_metadata`, with every
    failure turned into a `ProcessingResult`.
  * `process_directory`: a directory check, then `glob("*.pdf")`, then
    `process` for each listed entry.
* The `__main__` driver. It lists an input directory and exits 1 if no input
  is found. It then runs three examples and writes the markdown, JSON and
  metadata files each one produces.

The program has one thread. Its concurrency is with the **file system**:
other programs may create, delete or replace files and the directory between
any two of the program's file-system reads. Those reads are:

| What reads the file system | Line |
|---|---|
| `validate_file` | 203-212 |
| the converter opening the file | 233 |
| `stat()` in `_extract_metadata` | 288 |
| the directory check | 307 |
| `glob` | 311 |
| the driver's `exists()` checks | 429, 475, 514 |

The models therefore have two kinds of steps:
* the program's own;
* an environment actor, `FsChange` / `DirChange`.

The second source of interaction is **aliasing**. `get_config` returns the
processor's live config object, and the constructor keeps the caller's
object. A caller may therefore change the config under a processor that
already built its converter from it.

## Modules

| Module | Models | State |
|---|---|---|
| `DoclingData` | the data of `DocumentConfig`, `ProcessingResult`, the pipeline options, `validate_file`'s test, and the failure result of `process` | — (constants and operators) |
| `DoclingProcessor` | `DoclingPDFProcessor` (construction, `_initialize_converter`, `get_config` aliasing, `update_config`, `validate_file`, `process`, `_extract_metadata`), the factory and `docling_process` | `heap` (config objects), `created`, `procCfg` (`self._config`), `conv` (the pipeline `self._converter` was built with), `exc` (the last ValueError), `fs`, `pc`/`cur`/`doc` (where a process call is), `result` |
| `ProcessAtomic` | what `process` promises, as one atomic step from a path to a result | `ready`, `mode`, `fs`, `result` |
| `ProcessRefinement` | the refinement mapping from `DoclingProcessor` to `ProcessAtomic` | — |
| `DirectoryBatch` | `process_directory` over a directory that changes while it runs | `dir`, `bpc`, `listing` (glob's snapshot), `idx`, `waiting`, `batch` (the results list) |
| `CliDriver` | the `__main__` driver: Examples 1-3 and their output files | `phase`, `pdfFiles`, `pdfPath`, `wIdx`, `out` (output file name → which result's part it holds), `code` |
| `DoclingProcessorProofs` | TLAPS proofs about `DoclingProcessor` and the refinement | — |
| `BatchProofs` | TLAPS proofs about `DirectoryBatch` | — |
| `DriverProofs` | TLAPS proofs about `CliDriver` | — |
| `MC_*` | instances for TLC | — |

How the model's actions correspond to the code:

* **Create(o)** is `DoclingPDFProcessor(config)`. The converter is
  `PipelineOf(config)`: the OCR switch, plus the lower-cased engine name
  when OCR is on. The action raises exactly when OCR is on and the engine is
  not one of rapidocr, tesserocr or tesseract.
* **UpdateConfig(o)** is `update_config`. It assigns `_config` first and then
  rebuilds, and the rebuild may raise.
* **MutateConfig(o, c)** is a caller assigning fields of an object it holds.
  That object may be the processor's own config, reached through
  `get_config`.
* **process** is split at its file-system reads:
  * **Validate** is `validate_file` plus the "Invalid file" early return.
    `validate_file` checks `exists()` (false for a dangling link), then
    `is_file()`, then `suffix.lower() == ".pdf"`.
  * **Convert** is the converter call and the export. It raises on a missing
    or non-regular file, or on an `image_export_mode` that `ImageRefMode`
    rejects. Otherwise it produces content, complete or partial.
  * **ExtractMetadata** is `stat()` and the success result. Every exception
    becomes the failure result.
* **CheckDir**, **Glob**, **CallProcess**, **CollectResult** and
  **ReturnResults** are the statements of `process_directory`. Glob takes one
  snapshot of the matching entries: case-sensitive `*.pdf`, including
  directories, dangling links and the hidden name `.pdf`. The snapshot comes
  in any order.
* **ListInputs**, **StartExample1/2/3**, **CallExample**,
  **WriteExample1/2**, **RunBatch**, **EndBatch**, **WriteBatchResult** and
  **EndDriver** are the driver's statements. `WriteOutputs` models the three
  `write_text` calls. A name that already exists is replaced. The output
  directory is created with `exist_ok=True` and never cleared, so the model
  starts with the files `StaleOutputs` already there, holding `EarlierRun`.

Data is abstracted as follows:
* Config fields that never change the control flow are left out: tables,
  images, pages, backend, threads, timeout and device.
* Content is reduced to its image mode and a flag saying whether the
  conversion was complete.
* Error messages are reduced to their kind: "Invalid file" or "exception".
* Paths are strings only in the batch and driver instances, where file names
  matter.

## Runs

| Run | Checks | Result |
|---|---|---|
| `processor` | `TypeOK`, `ConverterOcrValid` (the converter's OCR engine is always a supported one), `ResultsWellFounded` (a success is a `.pdf`-suffixed path with content; a failure carries none) | pass |
| `processor_stale_converter` | `ConverterMatchesConfig` | **violated**: a failing `update_config` leaves the new config with the old converter (line 327) |
| `processor_unknown_engine` | `UnknownEngineRejected` | **violated**: an unknown engine is accepted when OCR is off (line 160), while the spec says construction fails |
| `batch` | `BatchTypeOK`, `BatchFollowsListing` (exactly one result per listed entry, in order) | pass |
| `batch_uppercase_pdf` | `AllPdfsListed` | **violated**: `b.PDF` is valid but never globbed (line 311) |
| `batch_directory_race` | `MissingDirRaises` | **violated**: a directory removed between check and glob gives `[]`, not `ValueError` (lines 307-311) |
| `driver` | `DriverTypeOK`, `BatchOutputsFromSuccesses` (every file Example 3 writes in this run comes from a successful batch result for that path) | pass |
| `driver_output_clobber` | `BatchOutputsIntact` | **violated**: `x.pdf`'s metadata and `x_metadata.pdf`'s JSON share `x_metadata.json` (line 537) |
| `driver_failed_outputs` | `OutputsOnlyFromSuccess` | **violated**: Example 1 writes the outputs of a failed result (lines 437-453) |
| `refinement` | `AtomicProcess` (the three-step `process` implements `ProcessAtomic`) under `QuietSpec`, where the file system changes only between calls | pass |

The refinement mapping is
`Atomic == INSTANCE ProcessAtomic WITH ready <- created, mode <- heap[procCfg].mode`.
`fs` and `result` map to themselves. `ProcessAtomic` states validity on
its own, as spec section 4.2 words it (`AcceptedPdf`: a regular file with
the `.pdf` extension), rather than reusing `ValidFile`. The "Invalid file"
branch is therefore checked too: leaving the suffix test out of
`ValidFile` breaks the refinement. Validate on a valid file and Convert
without a result leave every abstract variable unchanged, so they are
stuttering steps. The step that sets `result` is `Atomic!Process(cur)`.
Create, UpdateConfig and MutateConfig are `Atomic!Configure`. `FsChange` is
`Atomic!EnvChange`. The mapping holds only when no file-system change falls
inside a call: the converter must still see the file `validate_file` saw, and
the config's image mode must be the one used at conversion. `QuietSpec`
restricts `FsChange` to `pc = "idle"`. Without this restriction the
mapping fails. For example, a file removed between `validate_file` (203)
and the converter (233) gives an "exception" failure for a path that no
longer exists. The atomic specification, like spec section 8, gives
"Invalid file" for such a path.

Each property of a passing run is paired with a mutant in `PROJECT.json`. A
mutant is a plausible bug in the mapped definition, and TLC finds the
property violated under it. Examples: building the converter before
assigning the config, dropping the `ImageRefMode` check, and leaving out
`if r.success`.

### Bounds

* **Processor instance.**
  * Two config objects: the default, and one a caller holds.
  * Engines `rapidocr`, `RapidOCR` and `easyocr`. These cover a supported
    engine, the lower-casing and an unknown engine.
  * Modes `embedded` and `EMBEDDED`, which cover a valid mode and a mode that
    `ImageRefMode` rejects.
  * Two paths, with suffixes `.PDF` and `.txt`.
  * Every file kind: absent, file, dir, dangling.

  Every branch of `_initialize_converter`, `validate_file` and `process` is
  reachable.
* **Batch instance.** The paths are `a.pdf`, `b.PDF` and `.pdf`. These cover
  a matched valid file, a valid file the glob misses, and a matched entry
  `validate_file` rejects.
* **Driver instance.** The paths are `x.pdf`, `x_metadata.pdf` and
  `notes.txt`. Two inputs is the least number that can collide, and one
  input must not be globbed. One output, `example3_batch/x.md`, is left
  from an earlier run. That is the least stale state that Example 3 can
  either overwrite or leave in place.

Nothing the properties depend on grows with more paths. The loops run over
the snapshot, and every path is treated alike apart from its name.

### Fairness

No property of the project is a liveness property, so the specifications
carry no fairness. The code is one thread whose loops run over finite
snapshots. That it ends, given that docling returns, follows from the
shape of the code and says nothing about its correctness.

## Proofs

The proofs hold for every value of the constants that satisfies the
`ASSUME`s of `DoclingData`, `DirectoryBatch` and `CliDriver`.

`DoclingProcessorProofs` proves:

* `TypeCorrect`: `Spec => []TypeOK`.
* `ConverterAlwaysValid`: `Spec => []ConverterOcrValid`.
* `ResultsAlwaysWellFounded`: `Spec => []ResultsWellFounded`.
* `Refinement`: `QuietSpec => AtomicProcess`.

Neither of the first two invariants is inductive alone. `ConverterOcrValid`
needs `TypeOK`, because the config record must have an `engine` field.
`TypeOK` needs the result of `PipelineOf` to be a `Pipelines` record. The
inductive invariant is `Inv == TypeOK /\ ConverterOcrValid`. Its lemmas are:

* `InitInv`: `Init => Inv`.
* `NextInv`: `Inv /\ [Next]_vars => Inv'`. There is one step per action.
  Create and UpdateConfig are split on whether the engine check passes.
  Validate and Convert are split on their branches.
* `PipelineOfValid`: the pipeline built from a config that passes the check
  is well formed and names a supported engine.

`ResultsWellFounded` needs to know, at ExtractMetadata, that the call in
progress is on a `.pdf`-suffixed path and that the converted content exists.
`CallInv` records this, and `WFInv == Inv /\ ResultsWellFounded /\ CallInv` is
inductive (`InitWF`, `NextWF`).

`Refinement` uses `QuietInv`. It strengthens `WFInv` with two facts. First,
during a call the processor exists and the file is still a regular file.
Second, the converted content carries the current config's image mode.
Both hold only under `QuietSpec`. Given `QuietInv`, `QuietStepRefines`
shows that every `QuietNext` step is an `Atomic!Next` step or a stutter of
the abstract variables. The initial states map to `Atomic!Init`. The
temporal step is PTL.

`BatchProofs` proves:

* `BatchTypeCorrect`: `BatchSpec => []BatchTypeOK`.
* `BatchFollowsListingHolds`: `BatchSpec => []BatchFollowsListing`.

`BatchFollowsListing` is not inductive, because CollectResult appends the
result of the call in progress. `BatchCallInv` adds three facts:
* the call in progress is on `listing[idx]`;
* its result, once `process` has returned, is a `Results` record for that
  path;
* nothing is collected before the listing exists.

`BInv == WFInv /\ BatchTypeOK /\ BatchFollowsListing /\ BatchCallInv` is the
inductive invariant. `GlobListing` shows that every order `SetToSeqs` may
give glob's matches is a `Seq(PdfGlob)`, using the finiteness of `PdfGlob`.

`DriverProofs` proves:

* `DriverTypeCorrect`: `DriverSpec => []DriverTypeOK`.
* `BatchOutputsFromSuccessesHolds`: `DriverSpec => []BatchOutputsFromSuccesses`.

The inductive invariant is
`DInv == BInv /\ DriverTypeOK /\ DriverCallInv /\ BatchOutputsFromSuccesses`.
`BInv` comes from `BatchProofs`. It is needed because example 3 writes the
results that `process_directory` collected. `DriverCallInv` records where
the script is:
* before example 3, the batch is idle;
* after an example's call has returned, its result is a `Results` record;
* Example 3's write loop starts at the first result.

`BatchOutputsFromSuccesses` needs a further fact: examples 1 and 2 write under other directories than
`example3_batch`. `OutDirsAssumption` in `CliDriver` states it. It says that
the names built for different directories differ, because a stem has no
"/". The assumption is about string concatenation, which the provers do not
reason about, so TLC evaluates it on every driver run.
`WriteOutputsFacts` states what the three `write_text` calls leave. It is
cited at each write. `WriteOutputs` is written as an explicit function
rather than with `@@`, because the provers cannot expand `@@`. It still
denotes the same function, and the driver run reaches the same 609,444
states.

Left to TLC: the violation runs, and the action properties `AllPdfsListed`
and `MissingDirRaises`, which fail. The project has no liveness property.
Had it one, TLAPS could not prove it, because it rests on fairness and
ENABLED.

## Not modelled

* **The docling library.** It is external code. Its outcome is a
  nondeterministic choice: complete content, partial content on timeout, or
  an exception.
* **Formatting.** This covers `to_dict`, `__str__`, JSON dumping and the
  printing.
* **`DocumentProcessorInterface`**, which has no behaviour.
* **argparse.** It only chooses the two directories.
* **The metadata dictionary's values**, such as the page count and the file
  size.
* **Replacement of a file between conversion and `stat()`** (line 288). The
  model keeps no file identity or size, so the metadata's consistency with
  the converted file is not stated.

## Plan for later work

1. Model the config fields the processor never forwards: `max_pages`,
   `table_mode` and `pdf_backend`. State the spec's "every config field
   takes effect" as a violation run.
