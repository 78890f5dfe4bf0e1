-------------------------- MODULE DoclingProcessor --------------------------
(***************************************************************************)
(* The DoclingPDFProcessor object of                                       *)
(* src/examples/openshift/scripts/docling_module/processor.py.             *)
(*                                                                         *)
(* A processor keeps a reference to a DocumentConfig object (_config) and  *)
(* a DocumentConverter (_converter) whose pipeline options were copied     *)
(* out of that object when the converter was built.  The caller keeps its  *)
(* own references to the DocumentConfig objects it made, and get_config    *)
(* hands out the processor's own one, so a config object can be changed    *)
(* behind the processor's back.  process(path) runs validate_file, the     *)
(* converter and _extract_metadata one after the other, and the file       *)
(* system, shared with other programs, may change between them.            *)
(***************************************************************************)
EXTENDS DoclingData

VARIABLES
    heap,      \* heap[o]: the current field values of config object o
    created,   \* a DoclingPDFProcessor exists
    procCfg,   \* self._config: the object the processor refers to
    conv,      \* self._converter, as the pipeline it was built from
    exc,       \* exception the last constructor / update_config raised
    fs,        \* fs[p]: the kind of file system entry at p
    pc,        \* where the current process call is
    cur,       \* its file_path
    doc,       \* the converted document held between convert and metadata
    result     \* the ProcessingResult the last process call returned

procVars == <<created, procCfg, conv, exc>>
callVars == <<pc, cur, doc>>
vars == <<heap, procVars, fs, callVars, result>>

TypeOK ==
    /\ heap \in [Objs -> Configs]
    /\ created \in BOOLEAN
    /\ procCfg \in Objs
    /\ conv \in Pipelines \cup {NoConverter}
    /\ exc \in {"none", "ValueError"}
    /\ fs \in [Paths -> Kinds]
    /\ pc \in {"idle", "convert", "metadata"}
    /\ cur \in Paths
    /\ doc \in Contents \cup {NoContent}
    /\ result \in Results \cup {NoResult}

Init ==
    /\ heap \in [Objs -> Configs]
    /\ heap[DefaultObj] = DefaultConfig
    /\ created = FALSE
    /\ procCfg = DefaultObj
    /\ conv = NoConverter
    /\ exc = "none"
    /\ fs \in [Paths -> Kinds]
    /\ pc = "idle"
    /\ cur = CHOOSE p \in Paths : TRUE
    /\ doc = NoContent
    /\ result = NoResult

(***************************************************************************)
(* DoclingPDFProcessor(config) (also create_pdf_processor, docling_process *)
(* and create_processor_with_defaults): `config if config else             *)
(* DocumentConfig()`, then _initialize_converter, which raises before the  *)
(* converter exists when the engine is unknown; no processor is made then. *)
(***************************************************************************)
Create(o) ==
    /\ pc = "idle"
    /\ IF OcrEngineOk(heap[o])
          THEN /\ created' = TRUE
               /\ procCfg' = o
               /\ conv' = PipelineOf(heap[o])
               /\ exc' = "none"
          ELSE /\ exc' = "ValueError"
               /\ UNCHANGED <<created, procCfg, conv>>
    /\ UNCHANGED <<heap, fs, callVars, result>>

\* Mutant of UpdateConfig: the converter is replaced before the engine is
\* checked, so a raising update still installs it.
UpdateConfigBuildFirst(o) ==
    /\ created
    /\ pc = "idle"
    /\ procCfg' = o
    /\ conv' = PipelineOf(heap[o])
    /\ exc' = IF OcrEngineOk(heap[o]) THEN "none" ELSE "ValueError"
    /\ UNCHANGED <<heap, created, fs, callVars, result>>

(***************************************************************************)
(* update_config(config): self._config = config, then the converter is     *)
(* rebuilt; when _initialize_converter raises, the new config stays and    *)
(* the old converter too.                                                  *)
(***************************************************************************)
UpdateConfig(o) ==
    /\ created
    /\ pc = "idle"
    /\ procCfg' = o
    /\ IF OcrEngineOk(heap[o])
          THEN conv' = PipelineOf(heap[o]) /\ exc' = "none"
          ELSE exc' = "ValueError" /\ UNCHANGED conv
    /\ UNCHANGED <<heap, created, fs, callVars, result>>

(***************************************************************************)
(* A caller assigns fields of a DocumentConfig it holds: one it made, or   *)
(* the processor's own, which get_config returns by reference.             *)
(***************************************************************************)
MutateConfig(o, c) ==
    /\ CallerMutates
    /\ pc = "idle"
    /\ o \in (Objs \ {DefaultObj}) \cup (IF created THEN {procCfg} ELSE {})
    /\ heap' = [heap EXCEPT ![o] = c]
    /\ UNCHANGED <<procVars, fs, callVars, result>>

(***************************************************************************)
(* process(file_path), first step: validate_file.  An invalid path returns *)
(* the fixed "Invalid file" result.                                        *)
(***************************************************************************)
Validate(p) ==
    /\ created
    /\ pc = "idle"
    /\ cur' = p
    /\ IF ValidFile(p, fs[p])
          THEN pc' = "convert" /\ UNCHANGED result
          ELSE pc' = "idle" /\ result' = Fail(p, "Invalid file")
    /\ UNCHANGED <<heap, procVars, fs, doc>>

\* Mutant of Convert: the image mode is used without ImageRefMode's check.
ConvertNoModeCheck ==
    /\ pc = "convert"
    /\ \/ /\ fs[cur] = "file"
          /\ \E complete \in BOOLEAN :
                doc' = [mode |-> heap[procCfg].mode, complete |-> complete]
          /\ pc' = "metadata"
          /\ UNCHANGED result
       \/ /\ pc' = "idle"
          /\ result' = Fail(cur, "exception")
          /\ UNCHANGED doc
    /\ UNCHANGED <<heap, procVars, fs, cur>>

(***************************************************************************)
(* Second step: self._converter.convert(file_path), then export_to_markdown *)
(* with ImageRefMode(self._config.image_export_mode), export_to_dict and   *)
(* json.dumps.  The converter reads the file and raises when it is no      *)
(* longer a regular file or cannot be parsed; ImageRefMode raises on a     *)
(* value outside the enum.  Any exception becomes a failed result.         *)
(***************************************************************************)
Convert ==
    /\ pc = "convert"
    /\ \/ /\ fs[cur] = "file"
          /\ heap[procCfg].mode \in ImageRefModes
          /\ \E complete \in BOOLEAN :
                doc' = [mode |-> heap[procCfg].mode, complete |-> complete]
          /\ pc' = "metadata"
          /\ UNCHANGED result
       \/ /\ pc' = "idle"
          /\ result' = Fail(cur, "exception")
          /\ UNCHANGED doc
    /\ UNCHANGED <<heap, procVars, fs, cur>>

(***************************************************************************)
(* Third step: _extract_metadata, whose path_obj.stat() raises when the    *)
(* path no longer exists; the converted content is then discarded.         *)
(***************************************************************************)
ExtractMetadata ==
    /\ pc = "metadata"
    /\ pc' = "idle"
    /\ result' = IF Exists(fs[cur])
                    THEN [path |-> cur, success |-> TRUE, error |-> "none",
                          content |-> doc]
                    ELSE Fail(cur, "exception")
    /\ doc' = NoContent
    /\ UNCHANGED <<heap, procVars, fs, cur>>

(***************************************************************************)
(* Another program creates, removes or replaces the entry at p.            *)
(***************************************************************************)
FsChange(p, k) ==
    /\ k # fs[p]
    /\ fs' = [fs EXCEPT ![p] = k]
    /\ UNCHANGED <<heap, procVars, callVars, result>>

ProcessStep == Convert \/ ExtractMetadata

Next ==
    \/ \E o \in Objs : Create(o) \/ UpdateConfig(o)
    \/ \E o \in Objs, c \in Configs : MutateConfig(o, c)
    \/ \E p \in Paths : Validate(p)
    \/ ProcessStep
    \/ \E p \in Paths, k \in Kinds : FsChange(p, k)

Spec == Init /\ [][Next]_vars

-----------------------------------------------------------------------------
(***************************************************************************)
(* Properties.                                                             *)
(***************************************************************************)

(***************************************************************************)
(* The converter a processor holds was always built from a config that     *)
(* passed the OCR engine check, even after a failed update_config or a     *)
(* caller's assignment made the processor's config invalid: the ValueError *)
(* in _initialize_converter comes before DocumentConverter is made.        *)
(***************************************************************************)
ConverterOcrValid ==
    created => conv \in Pipelines /\ (conv.ocr => conv.engine \in SupportedEngines)

(***************************************************************************)
(* Spec section 8: a path that is not a regular .pdf file never yields a   *)
(* success; a success was converted with a valid ImageRefMode and a        *)
(* failure carries no content.                                             *)
(***************************************************************************)
ResultsWellFounded ==
    result # NoResult =>
        /\ result.success => /\ Lower[SuffixOf[result.path]] = ".pdf"
                             /\ result.content \in Contents
        /\ ~result.success => result.content = NoContent

(***************************************************************************)
(* The converter in use is the one the processor's current config would    *)
(* build (the config round-trip of spec section 8: get_config describes    *)
(* how documents are converted).                                           *)
(***************************************************************************)
ConverterMatchesConfig ==
    created => conv = PipelineOf(heap[procCfg])

(***************************************************************************)
(* Spec sections 3 and 8: an unrecognized OCR engine name makes            *)
(* construction (and update_config) fail, so a processor whose last       *)
(* construction or update succeeded names a known engine.                  *)
(***************************************************************************)
UnknownEngineRejected ==
    (created /\ exc = "none") => Lower[heap[procCfg].engine] \in SupportedEngines

=============================================================================
