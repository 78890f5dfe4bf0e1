------------------------------ MODULE CliDriver ------------------------------
(***************************************************************************)
(* The `if __name__ == "__main__"` driver of processor.py (lines 368-557)  *)
(* over one input directory and a fresh output directory.                  *)
(*                                                                         *)
(* It lists the input directory with glob("*.pdf") and exits with status 1 *)
(* when nothing matches; otherwise it takes the first listed path and runs *)
(* Example 1 (docling_process with the default config, outputs written     *)
(* whatever the result), Example 2 (a processor with a custom config,      *)
(* outputs written on success) and Example 3 (process_directory with a     *)
(* fresh processor, the outputs of each successful result written under    *)
(* its stem), then ends with status 0.  Every output is a markdown, a JSON *)
(* and a metadata file whose names are built from the input's stem.        *)
(***************************************************************************)
EXTENDS DirectoryBatch

CONSTANTS
    StemOf,      \* StemOf[p] is Path(p).stem
    CustomObj,   \* the DocumentConfig of Example 2
    StaleOutputs, \* output files an earlier run of the driver left behind
    EarlierRun   \* what such a file holds

ASSUME DriverAssumption ==
    /\ \A p \in Paths : StemOf[p] \in STRING
    /\ CustomObj \in Objs \ {DefaultObj}

Kinds3 == {"md", "json", "metadata"}

(***************************************************************************)
(* The output file names, as the f-strings of the driver build them.       *)
(***************************************************************************)
Ext1(k) == CASE k = "md" -> ".md" [] k = "json" -> ".json"
             [] k = "metadata" -> "_metadata.json"
Ext2(k) == CASE k = "md" -> "_custom.md" [] k = "json" -> "_custom.json"
             [] k = "metadata" -> "_custom_metadata.json"
OutName(d, p, k) ==
    d \o "/" \o StemOf[p] \o (IF d = "example2" THEN Ext2(k) ELSE Ext1(k))

OutNames == {OutName(d, p, k) : d \in {"example1", "example2", "example3_batch"},
                                p \in Paths, k \in Kinds3}

\* The f-strings put each example's directory before the "/" and a stem
\* (Path.stem) has no "/", so the outputs of two examples never share a name.
ASSUME OutDirsAssumption ==
    \A d1, d2 \in {"example1", "example2", "example3_batch"},
       p1, p2 \in Paths, k1, k2 \in Kinds3 :
        d1 # d2 => OutName(d1, p1, k1) # OutName(d2, p2, k2)

\* What a written file holds: the given part of the result for path src.
OutContents == [src: Paths, kind: Kinds3, success: BOOLEAN]

\* The output directories are made with mkdir(exist_ok=True) and never
\* emptied, so they may hold the files of an earlier run.
ASSUME StaleAssumption == StaleOutputs \subseteq OutNames /\ EarlierRun \notin OutContents

VARIABLES
    phase,     \* where the driver is
    pdfFiles,  \* the set glob listed at startup
    pdfPath,   \* pdf_files[0]
    wIdx,      \* Example 3's loop position over the returned results
    out,       \* the output files written: out[n] is what file n holds
    code       \* the exit status

driverVars == <<phase, pdfFiles, pdfPath, wIdx, out, code>>
everything == <<allVars, driverVars>>

Phases == {"list", "ex1", "ex1run", "ex1write", "ex2", "ex2run", "ex2write",
           "ex3", "ex3run", "ex3write", "exit"}

DriverTypeOK ==
    /\ BatchTypeOK
    /\ phase \in Phases
    /\ pdfFiles \in SUBSET PdfGlob
    /\ pdfPath \in Paths
    /\ wIdx \in Nat
    /\ DOMAIN out \subseteq OutNames
    /\ \A n \in DOMAIN out : out[n] \in OutContents \cup {EarlierRun}
    /\ code \in {0, 1}

\* DocumentConfig(extract_tables=True, extract_images=False,
\* ocr_enabled=False) of Example 2, in the fields the model keeps.
CustomConfig == [ocr |-> FALSE, engine |-> "rapidocr", mode |-> "embedded"]

DriverInit ==
    /\ BatchInit
    /\ heap[CustomObj] = CustomConfig
    /\ phase = "list"
    /\ pdfFiles = {}
    /\ pdfPath = CHOOSE p \in Paths : TRUE
    /\ wIdx = 1
    /\ out = [n \in StaleOutputs |-> EarlierRun]
    /\ code = 0

\* The driver writes the three outputs of result r under directory d.
\* write_text creates a file or replaces what it held.
WriteOutputs(d, r) ==
    LET written == {OutName(d, r.path, k) : k \in Kinds3} IN
    out' = [n \in written \cup DOMAIN out |->
              IF n \in written
                 THEN [src |-> r.path, success |-> r.success,
                       kind |-> CHOOSE k \in Kinds3 : n = OutName(d, r.path, k)]
                 ELSE out[n]]

\* Mutant of ListInputs: glob("*") instead of glob("*.pdf").
ListInputsAnyName ==
    /\ phase = "list"
    /\ LET listed == IF dir = "dir" THEN {p \in Paths : fs[p] # "absent"} ELSE {}
       IN /\ pdfFiles' = listed
          /\ IF listed = {}
                THEN phase' = "exit" /\ code' = 1 /\ UNCHANGED pdfPath
                ELSE /\ phase' = "ex1" /\ UNCHANGED code
                     /\ \E p \in listed : pdfPath' = p
    /\ UNCHANGED <<allVars, wIdx, out>>



(***************************************************************************)
(* pdf_files = list(assets_dir.glob("*.pdf")); exit(1) when empty, else    *)
(* pdf_path = pdf_files[0], whichever entry the listing put first.         *)
(***************************************************************************)
ListInputs ==
    /\ phase = "list"
    /\ LET listed == IF dir = "dir" THEN {p \in PdfGlob : fs[p] # "absent"}
                                   ELSE {}
       IN /\ pdfFiles' = listed
          /\ IF listed = {}
                THEN phase' = "exit" /\ code' = 1 /\ UNCHANGED pdfPath
                ELSE /\ phase' = "ex1" /\ UNCHANGED code
                     /\ \E p \in listed : pdfPath' = p
    /\ UNCHANGED <<allVars, wIdx, out>>

(***************************************************************************)
(* Example 1: `if pdf_path.exists()`, docling_process(str(pdf_path)) builds *)
(* a default processor and calls process; otherwise "PDF file not found".  *)
(***************************************************************************)
StartExample1 ==
    /\ phase = "ex1"
    /\ IF Exists(fs[pdfPath])
          THEN Create(DefaultObj) /\ phase' = "ex1run"
          ELSE phase' = "ex2" /\ UNCHANGED vars
    /\ UNCHANGED <<batchVars, pdfFiles, pdfPath, wIdx, out, code>>

(***************************************************************************)
(* Example 2: create_pdf_processor(custom_config) first, then              *)
(* `if pdf_path.exists()` the process call, else "PDF file not found".    *)
(***************************************************************************)
StartExample2 ==
    /\ phase = "ex2"
    /\ Create(CustomObj)
    /\ phase' = IF Exists(fs[pdfPath]) THEN "ex2run" ELSE "ex3"
    /\ UNCHANGED <<batchVars, pdfFiles, pdfPath, wIdx, out, code>>

CallExample(ph, next) ==
    /\ phase = ph
    /\ Validate(pdfPath)
    /\ phase' = next
    /\ UNCHANGED <<batchVars, pdfFiles, pdfPath, wIdx, out, code>>

\* Example 1 saves the three outputs without looking at result.success.
WriteExample1 ==
    /\ phase = "ex1write"
    /\ pc = "idle"
    /\ WriteOutputs("example1", result)
    /\ phase' = "ex2"
    /\ UNCHANGED <<allVars, pdfFiles, pdfPath, wIdx, code>>

\* Example 2 saves them only `if result.success`.
WriteExample2 ==
    /\ phase = "ex2write"
    /\ pc = "idle"
    /\ IF result.success THEN WriteOutputs("example2", result)
                         ELSE UNCHANGED out
    /\ phase' = "ex3"
    /\ UNCHANGED <<allVars, pdfFiles, pdfPath, wIdx, code>>

(***************************************************************************)
(* Example 3: a fresh default processor; `if assets_dir.exists()` calls     *)
(* process_directory (a ValueError is caught and printed), else prints     *)
(* "Assets directory not found".                                          *)
(***************************************************************************)
StartExample3 ==
    /\ phase = "ex3"
    /\ Create(DefaultObj)
    /\ phase' = IF dir \in {"dir", "file"} THEN "ex3run" ELSE "exit"
    /\ UNCHANGED <<batchVars, pdfFiles, pdfPath, wIdx, out, code>>

RunBatch ==
    /\ phase = "ex3run"
    /\ BatchStep
    /\ UNCHANGED driverVars

\* process_directory returned, or raised ValueError, which is caught.
EndBatch ==
    /\ phase = "ex3run"
    /\ bpc \in {"done", "raised"}
    /\ phase' = IF bpc = "done" THEN "ex3write" ELSE "exit"
    /\ UNCHANGED <<allVars, pdfFiles, pdfPath, wIdx, out, code>>

\* Mutant of WriteBatchResult: `if r.success` left out.
WriteBatchResultAll ==
    /\ phase = "ex3write"
    /\ wIdx <= Len(batch)
    /\ WriteOutputs("example3_batch", batch[wIdx])
    /\ wIdx' = wIdx + 1
    /\ UNCHANGED <<allVars, phase, pdfFiles, pdfPath, code>>

\* `for r in results: if r.success:` save r's outputs under its stem.
WriteBatchResult ==
    /\ phase = "ex3write"
    /\ wIdx <= Len(batch)
    /\ IF batch[wIdx].success THEN WriteOutputs("example3_batch", batch[wIdx])
                              ELSE UNCHANGED out
    /\ wIdx' = wIdx + 1
    /\ UNCHANGED <<allVars, phase, pdfFiles, pdfPath, code>>

EndDriver ==
    /\ phase = "ex3write"
    /\ wIdx > Len(batch)
    /\ phase' = "exit"
    /\ UNCHANGED <<allVars, pdfFiles, pdfPath, wIdx, out, code>>

DriverStep ==
    \/ ListInputs
    \/ StartExample1 \/ StartExample2
    \/ CallExample("ex1run", "ex1write")
    \/ CallExample("ex2run", "ex2write")
    \/ WriteExample1 \/ WriteExample2
    \/ StartExample3 \/ RunBatch \/ EndBatch
    \/ WriteBatchResult \/ EndDriver

DriverProcessStep == InnerProcessStep /\ UNCHANGED driverVars

DriverNext ==
    \/ DriverStep
    \/ DriverProcessStep
    \/ \E p \in Paths, k \in Kinds :
          dir = "dir" /\ FsChange(p, k) /\ UNCHANGED <<batchVars, driverVars>>
    \/ \E k \in DirKinds : DirChange(k) /\ UNCHANGED driverVars

DriverSpec == DriverInit /\ [][DriverNext]_everything

-----------------------------------------------------------------------------
Batch3Names == {OutName("example3_batch", p, k) : p \in Paths, k \in Kinds3}

(***************************************************************************)
(* Every file Example 3 writes in example3_batch holds a part of a         *)
(* successful result process_directory returned.                           *)
(***************************************************************************)
BatchOutputsFromSuccesses ==
    \A n \in {m \in Batch3Names \cap DOMAIN out : out[m] # EarlierRun} :
            \E i \in 1..Len(batch) : /\ batch[i].path = out[n].src
                                     /\ batch[i].success
                                     /\ out[n].success

(***************************************************************************)
(* Spec section 6, "one triple per processed document": when the driver    *)
(* ends, each successful result of Example 3 has its markdown, JSON and    *)
(* metadata under its own stem in example3_batch.                          *)
(***************************************************************************)
BatchOutputsIntact ==
    phase = "exit" =>
        \A i \in 1..Len(batch) :
            batch[i].success =>
                \A k \in Kinds3 :
                    LET n == OutName("example3_batch", batch[i].path, k) IN
                    n \in DOMAIN out /\
                    out[n] = [src |-> batch[i].path, kind |-> k, success |-> TRUE]

(***************************************************************************)
(* Outputs are saved for processed documents only: no output file holds    *)
(* the empty content of a failed result.                                   *)
(***************************************************************************)
OutputsOnlyFromSuccess ==
    \A n \in DOMAIN out : out[n] # EarlierRun => out[n].success

=============================================================================
