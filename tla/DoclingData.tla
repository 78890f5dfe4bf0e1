----------------------------- MODULE DoclingData -----------------------------
(***************************************************************************)
(* The constants and the data of                                           *)
(* src/examples/openshift/scripts/docling_module/processor.py that both    *)
(* the step-by-step model of DoclingPDFProcessor (DoclingProcessor) and    *)
(* the atomic specification of process (ProcessAtomic) are written in.    *)
(*                                                                         *)
(* Data is abstracted to what decides the control flow: a config is its    *)
(* OCR switch, OCR engine name and image export mode (the other fields    *)
(* are copied verbatim into the pipeline and change nothing in the         *)
(* control); a path is its file kind and its suffix.                       *)
(***************************************************************************)
EXTENDS Naturals, Sequences

CONSTANTS
    Objs,           \* DocumentConfig objects (model values)
    DefaultObj,     \* the object DocumentConfig() makes when config is None
    Engines,        \* strings a caller may put in ocr_engine
    Modes,          \* strings a caller may put in image_export_mode
    Paths,          \* file paths handed to process
    SuffixOf,       \* SuffixOf[p] is Path(p).suffix
    Lower,          \* Lower[s] is s.lower()
    CallerMutates,  \* whether callers assign fields of config objects
    NoConverter,    \* _converter before the processor exists
    NoContent,      \* the empty content of a failed result
    NoResult        \* no process call has returned yet

\* The OCR engines _initialize_converter knows (processor.py 163-180).
SupportedEngines == {"rapidocr", "tesserocr", "tesseract"}
\* The values of docling_core's ImageRefMode enum.
ImageRefModes == {"placeholder", "embedded", "referenced"}

ASSUME ObjsAssumption == DefaultObj \in Objs /\ Paths # {}
ASSUME LowerAssumption ==
    /\ Lower \in [DOMAIN Lower -> STRING]
    /\ Engines \subseteq DOMAIN Lower
    /\ \A p \in Paths : SuffixOf[p] \in DOMAIN Lower
ASSUME EngineAssumption == "rapidocr" \in Engines /\ "embedded" \in Modes
ASSUME MutatesAssumption == CallerMutates \in BOOLEAN
ASSUME SentinelAssumption ==
    NoConverter # NoContent /\ NoResult # NoContent /\ NoResult # NoConverter

(***************************************************************************)
(* DocumentConfig, reduced to the fields that steer the code.              *)
(***************************************************************************)
Configs == [ocr: BOOLEAN, engine: Engines, mode: Modes]

\* DocumentConfig() with its field defaults (processor.py 69-90).
DefaultConfig == [ocr |-> FALSE, engine |-> "rapidocr", mode |-> "embedded"]

(***************************************************************************)
(* The pipeline options _initialize_converter copies out of a config:      *)
(* do_ocr, and the OCR options class, chosen by the lower-cased engine     *)
(* name only when OCR is on.                                               *)
(***************************************************************************)
Pipelines == [ocr: BOOLEAN, engine: SupportedEngines \cup {"none"}]

PipelineOf(c) == [ocr |-> c.ocr,
                  engine |-> IF c.ocr THEN Lower[c.engine] ELSE "none"]

\* _initialize_converter raises ValueError for an unknown engine, and only
\* looks at the engine when OCR is on.
OcrEngineOk(c) == c.ocr => Lower[c.engine] \in SupportedEngines

(***************************************************************************)
(* File system entries as Path.exists / is_file / stat see them: a         *)
(* dangling symbolic link does not exist.                                  *)
(***************************************************************************)
Kinds == {"absent", "file", "dir", "dangling"}
Exists(k) == k \in {"file", "dir"}

\* Mutant of ValidFile: the extension check left out.
ValidFileAnySuffix(p, k) == Exists(k) /\ k = "file"

\* validate_file: exists, is a file, suffix.lower() in ['.pdf'].
ValidFile(p, k) == Exists(k) /\ k = "file" /\ Lower[SuffixOf[p]] = ".pdf"

(***************************************************************************)
(* ProcessingResult: a success carries the markdown, JSON and metadata,    *)
(* abstracted to the image mode they were rendered with and whether        *)
(* docling converted the whole document (complete is FALSE for a partial  *)
(* conversion, e.g. when document_timeout was hit).                        *)
(***************************************************************************)
Contents == [mode: ImageRefModes, complete: BOOLEAN]
Results == [path: Paths, success: BOOLEAN,
            error: {"none", "Invalid file", "exception"},
            content: Contents \cup {NoContent}]

\* The failed ProcessingResult process returns: success=False, empty
\* content, json_content and metadata, and the error message.
Fail(p, err) == [path |-> p, success |-> FALSE, error |-> err,
                 content |-> NoContent]

=============================================================================
