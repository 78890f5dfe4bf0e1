----------------------- MODULE DoclingProcessorProofs -----------------------
(***************************************************************************)
(* Proofs about DoclingProcessor for every value of its constants, and the  *)
(* proof that, with a quiet file system, its three-step process refines   *)
(* the atomic specification ProcessAtomic.                                 *)
(***************************************************************************)
EXTENDS ProcessRefinement, TLAPS

(***************************************************************************)
(* The pipeline _initialize_converter builds from a config that passes the *)
(* OCR engine check is a well-formed pipeline whose OCR options name a     *)
(* supported engine.                                                       *)
(***************************************************************************)
LEMMA PipelineOfValid ==
    ASSUME NEW c \in Configs, OcrEngineOk(c)
    PROVE  /\ PipelineOf(c) \in Pipelines
           /\ PipelineOf(c).ocr => PipelineOf(c).engine \in SupportedEngines
BY DEF PipelineOf, Pipelines, OcrEngineOk, Configs

(***************************************************************************)
(* Type correctness: every reachable state has the types of TypeOK.        *)
(***************************************************************************)
Inv == TypeOK /\ ConverterOcrValid

LEMMA InitInv == Init => Inv
BY ObjsAssumption DEF Init, Inv, TypeOK, ConverterOcrValid, DefaultConfig, Configs

LEMMA NextInv == Inv /\ [Next]_vars => Inv'
<1> SUFFICES ASSUME Inv, [Next]_vars PROVE Inv'
    OBVIOUS
<1>. USE ObjsAssumption, LowerAssumption, SentinelAssumption DEF Inv
<1>1. ASSUME NEW o \in Objs, Create(o) PROVE Inv'
    <2>1. CASE OcrEngineOk(heap[o])
        BY <1>1, <2>1, PipelineOfValid
           DEF Create, TypeOK, ConverterOcrValid, callVars
    <2>2. CASE ~OcrEngineOk(heap[o])
        BY <1>1, <2>2 DEF Create, TypeOK, ConverterOcrValid, callVars
    <2>3. QED BY <2>1, <2>2
<1>2. ASSUME NEW o \in Objs, UpdateConfig(o) PROVE Inv'
    <2>1. CASE OcrEngineOk(heap[o])
        BY <1>2, <2>1, PipelineOfValid
           DEF UpdateConfig, TypeOK, ConverterOcrValid, callVars
    <2>2. CASE ~OcrEngineOk(heap[o])
        BY <1>2, <2>2 DEF UpdateConfig, TypeOK, ConverterOcrValid, callVars
    <2>3. QED BY <2>1, <2>2
<1>3. ASSUME NEW o \in Objs, NEW c \in Configs, MutateConfig(o, c) PROVE Inv'
    BY <1>3 DEF MutateConfig, TypeOK, ConverterOcrValid, procVars, callVars
<1>4. ASSUME NEW p \in Paths, Validate(p) PROVE Inv'
    <2>1. CASE ValidFile(p, fs[p])
        BY <1>4, <2>1 DEF Validate, TypeOK, ConverterOcrValid, procVars
    <2>2. CASE ~ValidFile(p, fs[p])
        <3>1. Fail(p, "Invalid file") \in Results
            BY DEF Fail, Results
        <3>. QED
            BY <1>4, <2>2, <3>1 DEF Validate, TypeOK, ConverterOcrValid, procVars
    <2>3. QED BY <2>1, <2>2
<1>5. CASE Convert
    <2>1. CASE /\ fs[cur] = "file"
               /\ heap[procCfg].mode \in ImageRefModes
               /\ \E complete \in BOOLEAN :
                     doc' = [mode |-> heap[procCfg].mode, complete |-> complete]
               /\ pc' = "metadata"
               /\ UNCHANGED result
        <3>1. PICK complete \in BOOLEAN :
                  doc' = [mode |-> heap[procCfg].mode, complete |-> complete]
            BY <2>1
        <3>2. doc' \in Contents
            BY <3>1, <2>1 DEF Contents
        <3>. QED
            BY <1>5, <2>1, <3>2 DEF Convert, TypeOK, ConverterOcrValid, procVars
    <2>2. CASE /\ pc' = "idle"
               /\ result' = Fail(cur, "exception")
               /\ UNCHANGED doc
        BY <1>5, <2>2 DEF Convert, TypeOK, ConverterOcrValid, procVars, Fail,
                          Results
    <2>3. QED BY <1>5, <2>1, <2>2 DEF Convert
<1>6. CASE ExtractMetadata
    BY <1>6 DEF ExtractMetadata, TypeOK, ConverterOcrValid, procVars, Fail,
                Results
<1>7. ASSUME NEW p \in Paths, NEW k \in Kinds, FsChange(p, k) PROVE Inv'
    BY <1>7 DEF FsChange, TypeOK, ConverterOcrValid, procVars, callVars
<1>8. CASE UNCHANGED vars
    BY <1>8 DEF vars, TypeOK, ConverterOcrValid, procVars, callVars
<1>9. QED
    BY <1>1, <1>2, <1>3, <1>4, <1>5, <1>6, <1>7, <1>8 DEF Next, ProcessStep

(***************************************************************************)
(* Every reachable state is well typed: the processor's config objects,    *)
(* its converter and the result process returns keep their types through  *)
(* construction, update_config, callers' assignments, the three process    *)
(* steps and any file system change.                                       *)
(***************************************************************************)
THEOREM TypeCorrect == Spec => []TypeOK
<1>1. Inv => TypeOK BY DEF Inv
<1>2. QED BY InitInv, NextInv, <1>1, PTL DEF Spec

(***************************************************************************)
(* The converter a processor holds was always built from a config that     *)
(* passed the OCR engine check, whatever failed update_config calls and    *)
(* callers' assignments did to the processor's config: the ValueError of   *)
(* _initialize_converter comes before any converter is made.               *)
(***************************************************************************)
THEOREM ConverterAlwaysValid == Spec => []ConverterOcrValid
<1>1. Inv => ConverterOcrValid BY DEF Inv
<1>2. QED BY InitInv, NextInv, <1>1, PTL DEF Spec

-----------------------------------------------------------------------------
(***************************************************************************)
(* ResultsWellFounded is not inductive: the success ExtractMetadata makes  *)
(* takes its path and content from the call in progress, so the call must  *)
(* be known to be on a .pdf path that passed validate_file, holding a     *)
(* converted document once it reaches the metadata step.                   *)
(***************************************************************************)
CallInv ==
    /\ pc # "idle" => Lower[SuffixOf[cur]] = ".pdf"
    /\ pc = "metadata" => doc \in Contents

WFInv == Inv /\ ResultsWellFounded /\ CallInv

LEMMA InitWF == Init => WFInv
BY InitInv DEF Init, WFInv, ResultsWellFounded, CallInv

LEMMA NextWF == WFInv /\ [Next]_vars => WFInv'
<1> SUFFICES ASSUME WFInv, [Next]_vars PROVE WFInv'
    OBVIOUS
<1>1. Inv'
    BY NextInv DEF WFInv
<1>. USE SentinelAssumption DEF WFInv, Inv
<1>2. ASSUME NEW o \in Objs, Create(o) \/ UpdateConfig(o) PROVE WFInv'
    BY <1>1, <1>2 DEF Create, UpdateConfig, ResultsWellFounded, CallInv, callVars
<1>3. ASSUME NEW o \in Objs, NEW c \in Configs, MutateConfig(o, c) PROVE WFInv'
    BY <1>1, <1>3 DEF MutateConfig, ResultsWellFounded, CallInv, callVars
<1>4. ASSUME NEW p \in Paths, Validate(p) PROVE WFInv'
    <2>1. CASE ValidFile(p, fs[p])
        BY <1>1, <1>4, <2>1 DEF Validate, ValidFile, ResultsWellFounded, CallInv
    <2>2. CASE ~ValidFile(p, fs[p])
        <3>1. result' = Fail(p, "Invalid file") /\ pc' = "idle"
            BY <1>4, <2>2 DEF Validate
        <3>. QED BY <1>1, <3>1 DEF Fail, ResultsWellFounded, CallInv
    <2>3. QED BY <2>1, <2>2
<1>5. CASE Convert
    BY <1>1, <1>5 DEF Convert, Fail, ResultsWellFounded, CallInv, Contents
<1>6. CASE ExtractMetadata
    BY <1>1, <1>6 DEF ExtractMetadata, Fail, ResultsWellFounded, CallInv
<1>7. ASSUME NEW p \in Paths, NEW k \in Kinds, FsChange(p, k) PROVE WFInv'
    BY <1>1, <1>7 DEF FsChange, ResultsWellFounded, CallInv, callVars
<1>8. CASE UNCHANGED vars
    BY <1>1, <1>8 DEF vars, ResultsWellFounded, CallInv, callVars
<1>9. QED
    BY <1>2, <1>3, <1>4, <1>5, <1>6, <1>7, <1>8 DEF Next, ProcessStep

(***************************************************************************)
(* Spec section 8, for every value of the constants: a process call never  *)
(* returns success for a path without a .pdf suffix, a success carries     *)
(* the converted document and a failure none, whatever the file system    *)
(* and the callers' config assignments do during and between calls.       *)
(***************************************************************************)
THEOREM ResultsAlwaysWellFounded == Spec => []ResultsWellFounded
<1>1. WFInv => ResultsWellFounded BY DEF WFInv
<1>2. QED BY InitWF, NextWF, <1>1, PTL DEF Spec

-----------------------------------------------------------------------------
(***************************************************************************)
(* Refinement.  With the file system quiet during a call, the call in      *)
(* progress is on a regular file that passed validate_file, and the        *)
(* document held for the metadata step was rendered with the image mode   *)
(* the processor's config still has (no config change can come between:    *)
(* the caller is blocked in process).                                      *)
(***************************************************************************)
QuietInv ==
    /\ WFInv
    /\ pc # "idle" => created /\ fs[cur] = "file"
    /\ pc = "metadata" => doc.mode = heap[procCfg].mode

LEMMA QuietIsNext == QuietNext => Next
BY DEF QuietNext, Next

LEMMA InitQuiet == Init => QuietInv
BY InitWF DEF Init, QuietInv

LEMMA NextQuiet == QuietInv /\ [QuietNext]_vars => QuietInv'
<1> SUFFICES ASSUME QuietInv, [QuietNext]_vars PROVE QuietInv'
    OBVIOUS
<1>1. WFInv'
    BY NextWF, QuietIsNext DEF QuietInv
<1>. USE DEF QuietInv
<1>2. ASSUME NEW o \in Objs, Create(o) \/ UpdateConfig(o) PROVE QuietInv'
    BY <1>1, <1>2 DEF Create, UpdateConfig, callVars
<1>3. ASSUME NEW o \in Objs, NEW c \in Configs, MutateConfig(o, c) PROVE QuietInv'
    BY <1>1, <1>3 DEF MutateConfig, callVars
<1>4. ASSUME NEW p \in Paths, Validate(p) PROVE QuietInv'
    BY <1>1, <1>4 DEF Validate, ValidFile, Exists, procVars
<1>5. CASE Convert
    BY <1>1, <1>5 DEF Convert, procVars
<1>6. CASE ExtractMetadata
    BY <1>1, <1>6 DEF ExtractMetadata, procVars
<1>7. ASSUME NEW p \in Paths, NEW k \in Kinds, pc = "idle", FsChange(p, k)
      PROVE QuietInv'
    BY <1>1, <1>7 DEF FsChange, callVars
<1>8. CASE UNCHANGED vars
    BY <1>1, <1>8 DEF vars, procVars, callVars
<1>9. QED
    BY <1>2, <1>3, <1>4, <1>5, <1>6, <1>7, <1>8 DEF QuietNext, ProcessStep

\* Each step of the three-step process is a step of the atomic one, or
\* leaves what the atomic one sees unchanged.
LEMMA QuietStepRefines ==
    QuietInv /\ [QuietNext]_vars => [Atomic!Next]_Atomic!avars
<1> SUFFICES ASSUME QuietInv, [QuietNext]_vars
             PROVE  [Atomic!Next]_Atomic!avars
    OBVIOUS
<1>. USE ObjsAssumption, SentinelAssumption
         DEF QuietInv, WFInv, Inv, TypeOK, procVars, callVars,
             ValidFile, Exists, Fail, Atomic!AcceptedPdf,
             Atomic!Fail, Atomic!ImageRefModes, ImageRefModes
<1>1. ASSUME NEW o \in Objs, Create(o) \/ UpdateConfig(o)
      PROVE [Atomic!Next]_Atomic!avars
    <2>1. Atomic!Configure
        BY <1>1 DEF Create, UpdateConfig, Atomic!Configure, Configs
    <2>. QED BY <2>1 DEF Atomic!Next
<1>2. ASSUME NEW o \in Objs, NEW c \in Configs, MutateConfig(o, c)
      PROVE [Atomic!Next]_Atomic!avars
    <2>1. Atomic!Configure
        BY <1>2 DEF MutateConfig, Atomic!Configure, Configs
    <2>. QED BY <2>1 DEF Atomic!Next
<1>3. ASSUME NEW p \in Paths, Validate(p) PROVE [Atomic!Next]_Atomic!avars
    <2>1. CASE ValidFile(p, fs[p])
        BY <1>3, <2>1 DEF Validate, Atomic!avars
    <2>2. CASE ~ValidFile(p, fs[p])
        <3>1. Atomic!Process(p)
            BY <1>3, <2>2 DEF Validate, Atomic!Process, Atomic!Outcomes
        <3>. QED BY <3>1 DEF Atomic!Next
    <2>3. QED BY <2>1, <2>2
<1>4. CASE Convert
    <2>1. CASE pc' = "metadata"
        BY <1>4, <2>1 DEF Convert, Atomic!avars
    <2>2. CASE pc' = "idle"
        <3>1. result' = Fail(cur, "exception")
            BY <1>4, <2>2 DEF Convert
        <3>2. ValidFile(cur, fs[cur])
            BY <1>4 DEF Convert, CallInv, ValidFile, Exists
        <3>3. Atomic!Process(cur)
            BY <1>4, <3>1, <3>2 DEF Convert, Atomic!Process, Atomic!Outcomes
        <3>. QED BY <3>3 DEF Atomic!Next
    <2>3. QED BY <1>4, <2>1, <2>2 DEF Convert
<1>5. CASE ExtractMetadata
    <2>1. fs[cur] = "file" /\ created /\ ValidFile(cur, fs[cur])
        BY <1>5 DEF ExtractMetadata, CallInv, ValidFile, Exists
    <2>2. doc \in Contents /\ doc.mode = heap[procCfg].mode
        BY <1>5 DEF ExtractMetadata, CallInv
    <2>3. doc = [mode |-> heap[procCfg].mode, complete |-> doc.complete]
          /\ heap[procCfg].mode \in ImageRefModes
          /\ doc.complete \in BOOLEAN
        BY <2>2 DEF Contents
    <2>4. result' = [path |-> cur, success |-> TRUE, error |-> "none",
                     content |-> doc]
        BY <1>5, <2>1 DEF ExtractMetadata, Exists
    <2>5. result' \in Atomic!Outcomes(cur)
        <3>1. doc.complete \in (IF heap[procCfg].mode \in ImageRefModes
                                   THEN BOOLEAN ELSE {})
            BY <2>3
        <3>2. result' = [path |-> cur, success |-> TRUE, error |-> "none",
                         content |-> [mode |-> heap[procCfg].mode,
                                      complete |-> doc.complete]]
            BY <2>3, <2>4
        <3>. QED BY <2>1, <3>1, <3>2 DEF Atomic!Outcomes
    <2>6. Atomic!Process(cur)
        BY <1>5, <2>1, <2>5 DEF ExtractMetadata, Atomic!Process
    <2>. QED BY <2>6 DEF Atomic!Next
<1>6. ASSUME NEW p \in Paths, NEW k \in Kinds, pc = "idle", FsChange(p, k)
      PROVE [Atomic!Next]_Atomic!avars
    <2>1. Atomic!EnvChange(p, k)
        BY <1>6 DEF FsChange, Atomic!EnvChange
    <2>. QED BY <2>1 DEF Atomic!Next, Atomic!Kinds, Kinds
<1>7. CASE UNCHANGED vars
    BY <1>7 DEF vars, procVars, Atomic!avars
<1>8. QED
    BY <1>1, <1>2, <1>3, <1>4, <1>5, <1>6, <1>7 DEF QuietNext, ProcessStep

(***************************************************************************)
(* When other programs leave the file system alone during a process call,  *)
(* DoclingPDFProcessor.process, split into validate_file, the converter    *)
(* call and _extract_metadata, implements the atomic process of            *)
(* ProcessAtomic: every result it returns is one the atomic call could     *)
(* return from the state in which it returned, with the processor's       *)
(* existence and image mode as the refinement mapping.                     *)
(***************************************************************************)
THEOREM Refinement == QuietSpec => AtomicProcess
<1>1. Init => Atomic!Init
    BY ObjsAssumption, EngineAssumption
       DEF Init, Atomic!Init, DefaultConfig, Atomic!Kinds, Kinds
<1>2. QED
    BY InitQuiet, NextQuiet, QuietStepRefines, <1>1, PTL
       DEF QuietSpec, AtomicProcess, Atomic!Spec

=============================================================================
