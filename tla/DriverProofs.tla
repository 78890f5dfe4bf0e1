---------------------------- MODULE DriverProofs ----------------------------
(***************************************************************************)
(* Proofs about the __main__ driver (CliDriver) for every value of the     *)
(* constants: its state keeps its types, its exit status says whether the  *)
(* first glob found an input, and every file Example 3 writes comes from  *)
(* a successful result of process_directory.                              *)
(***************************************************************************)
EXTENDS CliDriver, BatchProofs, TLAPS

\* The output directories as the driver finds them.
StaleOut == [n \in StaleOutputs |-> EarlierRun]

\* The phases before Example 3 calls process_directory.
PreBatch == {"list", "ex1", "ex1run", "ex1write", "ex2", "ex2run",
             "ex2write", "ex3"}

(***************************************************************************)
(* What the steps need to know of where the script is: before             *)
(* process_directory is called its loop has not started; an example that  *)
(* writes after process returned has a result to write; Example 3's write  *)
(* loop starts at the first result.                                        *)
(***************************************************************************)
DriverCallInv ==
    /\ wIdx >= 1
    /\ phase \in PreBatch => bpc = "idle" /\ ~waiting
    /\ phase \in {"ex1write", "ex2write"} /\ pc = "idle" => result \in Results

DInv == BInv /\ DriverTypeOK /\ DriverCallInv /\ BatchOutputsFromSuccesses

\* The three names an example writes for the result of path p.
NewNames(d, p) == {OutName(d, p, k) : k \in Kinds3}

(***************************************************************************)
(* What the three write_text calls of an example leave: the three names    *)
(* built from the result's stem hold that result's parts, and every other *)
(* file is as it was.                                                      *)
(***************************************************************************)
LEMMA WriteOutputsFacts ==
    ASSUME NEW d, NEW r, r.path \in Paths, r.success \in BOOLEAN,
           WriteOutputs(d, r)
    PROVE  /\ DOMAIN out' = NewNames(d, r.path) \cup DOMAIN out
           /\ \A n \in NewNames(d, r.path) :
                 /\ out'[n] \in OutContents
                 /\ out'[n].src = r.path
                 /\ out'[n].success = r.success
           /\ \A n \in DOMAIN out \ NewNames(d, r.path) : out'[n] = out[n]
<1>1. DOMAIN out' = NewNames(d, r.path) \cup DOMAIN out
    BY DEF WriteOutputs, NewNames
<1>2. ASSUME NEW n \in NewNames(d, r.path)
      PROVE  /\ out'[n] \in OutContents
             /\ out'[n].src = r.path
             /\ out'[n].success = r.success
    <2>1. \E k \in Kinds3 : n = OutName(d, r.path, k)
        BY <1>2 DEF NewNames
    <2>2. (CHOOSE k \in Kinds3 : n = OutName(d, r.path, k)) \in Kinds3
        BY <2>1
    <2>3. out'[n] = [src |-> r.path, success |-> r.success,
                     kind |-> CHOOSE k \in Kinds3 : n = OutName(d, r.path, k)]
        BY <1>2 DEF WriteOutputs, NewNames
    <2>. QED BY <2>2, <2>3 DEF OutContents
<1>3. \A n \in DOMAIN out \ NewNames(d, r.path) : out'[n] = out[n]
    BY DEF WriteOutputs, NewNames
<1>. QED BY <1>1, <1>2, <1>3

LEMMA DriverInitInv == DriverInit => DInv
<1> SUFFICES ASSUME DriverInit PROVE DInv
    OBVIOUS
<1>1. BInv /\ BatchTypeOK
    BY BatchInitInv DEF DriverInit, BInv
<1>2. /\ phase = "list" /\ pdfFiles = {} /\ wIdx = 1 /\ code = 0
      /\ out = StaleOut /\ pdfPath = CHOOSE p \in Paths : TRUE
      /\ bpc = "idle" /\ waiting = FALSE
    BY DEF DriverInit, BatchInit, StaleOut
<1>3. pdfPath \in Paths
    BY <1>2, ObjsAssumption
<1>4. DOMAIN out \subseteq OutNames
      /\ \A n \in DOMAIN out : out[n] = EarlierRun
    BY <1>2, StaleAssumption DEF StaleOut
<1>5. DriverTypeOK
    BY <1>1, <1>2, <1>3, <1>4 DEF DriverTypeOK, Phases
<1>6. DriverCallInv
    BY <1>2 DEF DriverCallInv, PreBatch
<1>7. BatchOutputsFromSuccesses
    BY <1>4 DEF BatchOutputsFromSuccesses
<1>. QED BY <1>1, <1>5, <1>6, <1>7 DEF DInv

\* Examples 1 and 2 call process while process_directory is idle, so their
\* call keeps what the batch invariant says.
LEMMA CallExampleBInv ==
    ASSUME DInv, NEW ph \in {"ex1run", "ex2run"}, NEW nx, CallExample(ph, nx)
    PROVE  BInv'
<1>0. /\ WFInv /\ BatchTypeOK /\ BatchFollowsListing /\ BatchCallInv
      /\ pdfPath \in Paths /\ bpc = "idle" /\ ~waiting
    BY DEF DInv, BInv, DriverTypeOK, DriverCallInv, CallExample, PreBatch
<1>1. UNCHANGED batchVars /\ Validate(pdfPath)
    BY DEF CallExample
<1>2. WFInv'
    BY <1>0, <1>1, NextWF DEF Next
<1>3. TypeOK'
    BY <1>2 DEF WFInv, Inv
<1>4. /\ dir' = dir /\ bpc' = bpc /\ listing' = listing /\ idx' = idx
      /\ waiting' = waiting /\ batch' = batch
    BY <1>1 DEF batchVars
<1>5. BatchTypeOK' /\ BatchFollowsListing'
    BY <1>0, <1>3, <1>4 DEF BatchTypeOK, BatchFollowsListing
<1>6. BatchCallInv'
    BY <1>0, <1>4 DEF BatchCallInv
<1>. QED BY <1>2, <1>5, <1>6 DEF BInv

\* Every other step of the driver is a step of process_directory's model, or
\* leaves its variables alone.
LEMMA DriverBInv == DInv /\ [DriverNext]_everything => BInv'
<1> SUFFICES ASSUME DInv, [DriverNext]_everything PROVE BInv'
    OBVIOUS
<1>0. BInv /\ (phase \in PreBatch => bpc = "idle")
    BY DEF DInv, DriverCallInv
<1>1. SUFFICES ASSUME ~\E ph \in {"ex1run", "ex2run"}, nx \in {"ex1write", "ex2write"} : CallExample(ph, nx)
               PROVE  [BatchNext]_allVars
    <2>1. CASE \E ph \in {"ex1run", "ex2run"}, nx \in {"ex1write", "ex2write"} : CallExample(ph, nx)
        <3>1. PICK ph \in {"ex1run", "ex2run"}, nx \in {"ex1write", "ex2write"} : CallExample(ph, nx)
            BY <2>1
        <3>. QED BY <3>1, CallExampleBInv
    <2>2. CASE ~\E ph \in {"ex1run", "ex2run"}, nx \in {"ex1write", "ex2write"} : CallExample(ph, nx)
        BY <2>2, <1>0, BatchNextInv
    <2>. QED BY <2>1, <2>2
<1>2. CASE ListInputs \/ WriteExample1 \/ WriteExample2 \/ EndBatch
           \/ WriteBatchResult \/ EndDriver
    BY <1>2 DEF ListInputs, WriteExample1, WriteExample2, EndBatch,
                WriteBatchResult, EndDriver, allVars
<1>3. CASE StartExample1
    <2>1. CASE Exists(fs[pdfPath])
        BY <1>0, <1>3, <2>1, ObjsAssumption
           DEF StartExample1, BatchNext, PreBatch
    <2>2. CASE ~Exists(fs[pdfPath])
        BY <1>3, <2>2 DEF StartExample1, allVars
    <2>. QED BY <2>1, <2>2
<1>4. CASE StartExample2 \/ StartExample3
    BY <1>0, <1>4, DriverAssumption, ObjsAssumption
       DEF StartExample2, StartExample3, BatchNext, PreBatch
<1>5. CASE RunBatch
    BY <1>5 DEF RunBatch, BatchNext
<1>6. CASE DriverProcessStep
    BY <1>6 DEF DriverProcessStep, BatchNext
<1>7. CASE \E p \in Paths, k \in Kinds :
              dir = "dir" /\ FsChange(p, k) /\ UNCHANGED <<batchVars, driverVars>>
    BY <1>7 DEF BatchNext
<1>8. CASE \E k \in DirKinds : DirChange(k) /\ UNCHANGED driverVars
    BY <1>8 DEF BatchNext
<1>9. CASE UNCHANGED everything
    BY <1>9 DEF everything
<1>. QED
    BY <1>1, <1>2, <1>3, <1>4, <1>5, <1>6, <1>7, <1>8, <1>9
       DEF DriverNext, DriverStep

\* A ProcessingResult names a path and says whether it succeeded.
LEMMA ResultFields ==
    ASSUME NEW r \in Results
    PROVE  r.path \in Paths /\ r.success \in BOOLEAN
BY Zenon DEF Results

\* When a process call returns, the result it leaves is a ProcessingResult.
LEMMA ProcessStepResult ==
    ASSUME WFInv, ProcessStep
    PROVE  pc' = "idle" => result' \in Results
<1>1. cur \in Paths /\ (pc = "metadata" => doc \in Contents)
    BY DEF WFInv, Inv, TypeOK, CallInv
<1>2. Fail(cur, "exception") \in Results
    BY <1>1, Zenon DEF Fail, Results
<1>3. CASE Convert
    <2>1. pc' = "idle" => result' = Fail(cur, "exception")
        BY <1>3 DEF Convert
    <2>. QED BY <1>2, <2>1, Zenon
<1>4. CASE ExtractMetadata
    <2>1. \/ result' = [path |-> cur, success |-> TRUE, error |-> "none",
                        content |-> doc]
          \/ result' = Fail(cur, "exception")
        BY <1>4 DEF ExtractMetadata
    <2>2. doc \in Contents
        BY <1>1, <1>4 DEF ExtractMetadata
    <2>3. [path |-> cur, success |-> TRUE, error |-> "none",
           content |-> doc] \in Results
        BY <1>1, <2>2, Zenon DEF Results
    <2>. QED BY <1>2, <2>1, <2>3, Zenon
<1>. QED BY <1>3, <1>4 DEF ProcessStep

\* The directories the examples write to.
OutDirs == {"example1", "example2", "example3_batch"}

\* A write keeps the output directories within the names and the contents
\* the driver can produce.
LEMMA OutputsWritten ==
    ASSUME DriverTypeOK, NEW d \in OutDirs, NEW r \in Results,
           WriteOutputs(d, r)
    PROVE  /\ DOMAIN out' \subseteq OutNames
           /\ \A n \in DOMAIN out' : out'[n] \in OutContents \cup {EarlierRun}
<1>1. r.path \in Paths /\ r.success \in BOOLEAN
    BY ResultFields
<1>2. NewNames(d, r.path) \subseteq OutNames
    BY <1>1 DEF NewNames, OutNames, OutDirs
<1>3. /\ DOMAIN out' = NewNames(d, r.path) \cup DOMAIN out
      /\ \A n \in NewNames(d, r.path) : out'[n] \in OutContents
      /\ \A n \in DOMAIN out \ NewNames(d, r.path) : out'[n] = out[n]
    BY <1>1, WriteOutputsFacts, Zenon
<1>. QED BY <1>2, <1>3 DEF DriverTypeOK

LEMMA DriverTypeNext == DInv /\ [DriverNext]_everything => DriverTypeOK'
<1> SUFFICES ASSUME DInv, [DriverNext]_everything PROVE DriverTypeOK'
    OBVIOUS
<1>0. DriverTypeOK /\ DriverCallInv /\ BatchTypeOK'
    BY DriverBInv DEF DInv, BInv
<1> DEFINE OutOK == /\ DOMAIN out' \subseteq OutNames
                    /\ \A n \in DOMAIN out' : out'[n] \in OutContents \cup {EarlierRun}
<1>1. SUFFICES /\ phase' \in Phases /\ pdfFiles' \in SUBSET PdfGlob
               /\ pdfPath' \in Paths /\ wIdx' \in Nat /\ code' \in {0, 1}
               /\ OutOK
    BY <1>0 DEF DriverTypeOK
<1>2. CASE ListInputs
    BY <1>0, <1>2, GlobFacts DEF ListInputs, DriverTypeOK, Phases
<1>3. CASE \/ StartExample1 \/ StartExample2 \/ StartExample3
           \/ CallExample("ex1run", "ex1write") \/ CallExample("ex2run", "ex2write")
           \/ EndBatch \/ EndDriver
    BY <1>0, <1>3 DEF StartExample1, StartExample2, StartExample3, CallExample,
                      EndBatch, EndDriver, DriverTypeOK, Phases
<1>4. CASE WriteExample1
    <2>1. result \in Results
        BY <1>0, <1>4 DEF WriteExample1, DriverCallInv
    <2>2. OutOK
        BY <1>0, <1>4, <2>1, OutputsWritten DEF WriteExample1, OutDirs
    <2>. QED BY <1>0, <1>4, <2>2 DEF WriteExample1, DriverTypeOK, Phases
<1>5. CASE WriteExample2
    <2>1. result \in Results
        BY <1>0, <1>5 DEF WriteExample2, DriverCallInv
    <2>2. OutOK
        <3>1. CASE result.success
            BY <1>0, <1>5, <2>1, <3>1, OutputsWritten DEF WriteExample2, OutDirs
        <3>2. CASE ~result.success
            BY <1>0, <1>5, <3>2 DEF WriteExample2, DriverTypeOK
        <3>. QED BY <3>1, <3>2
    <2>. QED BY <1>0, <1>5, <2>2 DEF WriteExample2, DriverTypeOK, Phases
<1>6. CASE WriteBatchResult
    <2>1. batch[wIdx] \in Results
        BY <1>0, <1>6 DEF WriteBatchResult, DriverTypeOK, BatchTypeOK,
                          DriverCallInv
    <2>2. OutOK
        <3>1. CASE batch[wIdx].success
            BY <1>0, <1>6, <2>1, <3>1, OutputsWritten
               DEF WriteBatchResult, OutDirs
        <3>2. CASE ~batch[wIdx].success
            BY <1>0, <1>6, <3>2 DEF WriteBatchResult, DriverTypeOK
        <3>. QED BY <3>1, <3>2
    <2>. QED BY <1>0, <1>6, <2>2 DEF WriteBatchResult, DriverTypeOK
<1>7. CASE UNCHANGED driverVars
    BY <1>0, <1>7 DEF driverVars, DriverTypeOK
<1>. QED
    BY <1>2, <1>3, <1>4, <1>5, <1>6, <1>7
       DEF DriverNext, DriverStep, RunBatch, DriverProcessStep, everything

LEMMA DriverCallNext == DInv /\ [DriverNext]_everything => DriverCallInv'
<1> SUFFICES ASSUME DInv, [DriverNext]_everything PROVE DriverCallInv'
    OBVIOUS
<1>0. DriverTypeOK /\ DriverCallInv /\ WFInv
    BY DEF DInv, BInv
<1> USE DEF DriverCallInv, PreBatch, allVars, vars, batchVars, procVars,
            callVars, driverVars
<1>1. CASE ListInputs
    BY <1>0, <1>1 DEF ListInputs, allVars
<1>2. CASE StartExample1
    BY <1>0, <1>2 DEF StartExample1, Create
<1>13. CASE StartExample2
    BY <1>0, <1>13 DEF StartExample2, Create
<1>14. CASE StartExample3
    BY <1>0, <1>14 DEF StartExample3, Create
<1>3. ASSUME NEW ph \in {"ex1run", "ex2run"},
             NEW nx \in {"ex1write", "ex2write"}, CallExample(ph, nx)
      PROVE  DriverCallInv'
    <2>1. pc' = "idle" => result' = Fail(pdfPath, "Invalid file")
        BY <1>3, Zenon DEF CallExample, Validate
    <2>2. Fail(pdfPath, "Invalid file") \in Results
        BY <1>0, Zenon DEF DriverTypeOK, Fail, Results
    <2>3. /\ UNCHANGED <<batchVars, pdfFiles, pdfPath, wIdx, out, code>>
          /\ phase = ph /\ phase' = nx
        BY <1>3 DEF CallExample
    <2>4. pc' = "idle" => result' \in Results
        BY <2>1, <2>2, Zenon
    <2>. QED BY <1>0, <2>3, <2>4
<1>4. CASE WriteExample1
    BY <1>0, <1>4 DEF WriteExample1
<1>5. CASE WriteExample2
    BY <1>0, <1>5 DEF WriteExample2
<1>10. CASE RunBatch
    BY <1>0, <1>10 DEF RunBatch
<1>11. CASE EndBatch
    BY <1>0, <1>11 DEF EndBatch
<1>12. CASE WriteBatchResult
    <2>1. /\ phase = "ex3write" /\ phase' = "ex3write" /\ wIdx' = wIdx + 1
          /\ UNCHANGED <<allVars, pdfFiles, pdfPath, code>>
        BY <1>12 DEF WriteBatchResult
    <2>2. wIdx \in Nat
        BY <1>0 DEF DriverTypeOK
    <2>. QED BY <1>0, <2>1, <2>2
<1>15. CASE EndDriver
    BY <1>0, <1>15 DEF EndDriver
<1>16. CASE CallExample("ex1run", "ex1write") \/ CallExample("ex2run", "ex2write")
    BY <1>3, <1>16
<1>6. CASE DriverProcessStep
    <2>1. pc' = "idle" => result' \in Results
        BY <1>0, <1>6, ProcessStepResult DEF DriverProcessStep, InnerProcessStep
    <2>. QED BY <1>0, <1>6, <2>1 DEF DriverProcessStep, InnerProcessStep,
                                     driverVars, batchVars
<1>7. CASE \E p \in Paths, k \in Kinds :
              dir = "dir" /\ FsChange(p, k) /\ UNCHANGED <<batchVars, driverVars>>
    BY <1>0, <1>7 DEF FsChange, driverVars, batchVars, callVars
<1>8. CASE \E k \in DirKinds : DirChange(k) /\ UNCHANGED driverVars
    BY <1>0, <1>8 DEF DirChange, driverVars, callVars
<1>9. CASE UNCHANGED everything
    BY <1>0, <1>9 DEF everything, allVars, vars, batchVars, callVars, driverVars
<1>. QED
    BY <1>1, <1>2, <1>4, <1>5, <1>6, <1>7, <1>8, <1>9, <1>10, <1>11,
       <1>12, <1>13, <1>14, <1>15, <1>16, Zenon DEF DriverNext, DriverStep

\* Examples 1 and 2 write outside example3_batch, so what they write never
\* passes for an output of Example 3.
LEMMA OtherDirsWrite ==
    ASSUME NEW d \in {"example1", "example2"}, NEW r,
           r.path \in Paths, r.success \in BOOLEAN,
           WriteOutputs(d, r), batch' = batch, BatchOutputsFromSuccesses
    PROVE  BatchOutputsFromSuccesses'
<1> SUFFICES ASSUME NEW n \in Batch3Names \cap DOMAIN out', out'[n] # EarlierRun
             PROVE  \E i \in 1..Len(batch') : /\ batch'[i].path = out'[n].src
                                              /\ batch'[i].success
                                              /\ out'[n].success
    BY DEF BatchOutputsFromSuccesses
<1>1. PICK p \in Paths, k \in Kinds3 : n = OutName("example3_batch", p, k)
    BY DEF Batch3Names
<1>2. n \notin NewNames(d, r.path)
    BY <1>1, OutDirsAssumption DEF NewNames
<1>3. /\ DOMAIN out' = NewNames(d, r.path) \cup DOMAIN out
      /\ \A m \in DOMAIN out \ NewNames(d, r.path) : out'[m] = out[m]
    BY WriteOutputsFacts, Zenon
<1>4. n \in Batch3Names \cap DOMAIN out /\ out'[n] = out[n]
    BY <1>2, <1>3
<1>. QED BY <1>4 DEF BatchOutputsFromSuccesses

\* Example 3 writes the outputs of the result at wIdx, a success.
LEMMA BatchWrite ==
    ASSUME DriverTypeOK, DriverCallInv, BatchOutputsFromSuccesses,
           WriteBatchResult
    PROVE  BatchOutputsFromSuccesses'
<1>0. /\ wIdx \in 1..Len(batch) /\ batch[wIdx] \in Results
      /\ batch' = batch /\ wIdx' = wIdx + 1
    BY DEF DriverTypeOK, BatchTypeOK, DriverCallInv, WriteBatchResult,
           allVars, batchVars
<1>1. CASE ~batch[wIdx].success
    <2>1. out' = out
        BY <1>1 DEF WriteBatchResult
    <2>. QED BY <1>0, <2>1 DEF BatchOutputsFromSuccesses
<1>2. CASE batch[wIdx].success
    <2> DEFINE r == batch[wIdx]
    <2>1. r.path \in Paths /\ r.success \in BOOLEAN
        BY <1>0, ResultFields
    <2>2. WriteOutputs("example3_batch", r)
        BY <1>2 DEF WriteBatchResult
    <2>3. /\ DOMAIN out' = NewNames("example3_batch", r.path) \cup DOMAIN out
          /\ \A m \in NewNames("example3_batch", r.path) :
                /\ out'[m] \in OutContents
                /\ out'[m].src = r.path
                /\ out'[m].success = r.success
          /\ \A m \in DOMAIN out \ NewNames("example3_batch", r.path) :
                out'[m] = out[m]
        BY <2>1, <2>2, WriteOutputsFacts
    <2> SUFFICES ASSUME NEW n \in Batch3Names \cap DOMAIN out',
                        out'[n] # EarlierRun
                 PROVE  \E i \in 1..Len(batch') : /\ batch'[i].path = out'[n].src
                                                  /\ batch'[i].success
                                                  /\ out'[n].success
        BY DEF BatchOutputsFromSuccesses
    <2>4. CASE n \in NewNames("example3_batch", r.path)
        BY <1>0, <1>2, <2>3, <2>4
    <2>5. CASE n \notin NewNames("example3_batch", r.path)
        <3>1. n \in Batch3Names \cap DOMAIN out /\ out'[n] = out[n]
            BY <2>3, <2>5
        <3>. QED BY <1>0, <3>1 DEF BatchOutputsFromSuccesses
    <2>. QED BY <2>4, <2>5
<1>. QED BY <1>1, <1>2

\* A step of process_directory only appends to its results list, so a
\* result an output came from stays where it was.
LEMMA BatchStepKeepsOutputs ==
    ASSUME BatchTypeOK, BatchOutputsFromSuccesses, BatchStep, out' = out
    PROVE  BatchOutputsFromSuccesses'
<1>1. /\ Len(batch) <= Len(batch')
      /\ \A i \in 1..Len(batch) : batch'[i] = batch[i]
    <2>1. CASE CollectResult
        <3>1. batch' = Append(batch, result)
            BY <2>1 DEF CollectResult
        <3>. QED BY <3>1 DEF BatchTypeOK
    <2>3. CASE CheckDir \/ Glob \/ CallProcess \/ ReturnResults
        <3>1. batch' = batch
            BY <2>3 DEF CheckDir, Glob, CallProcess, ReturnResults
        <3>. QED BY <3>1 DEF BatchTypeOK
    <2>. QED BY <2>1, <2>3 DEF BatchStep
<1>2. \A i \in 1..Len(batch) : i \in 1..Len(batch')
    BY <1>1 DEF BatchTypeOK
<1>. QED BY <1>1, <1>2 DEF BatchOutputsFromSuccesses

LEMMA OutputsNext == DInv /\ [DriverNext]_everything => BatchOutputsFromSuccesses'
<1> SUFFICES ASSUME DInv, [DriverNext]_everything
             PROVE  BatchOutputsFromSuccesses'
    OBVIOUS
<1>0. /\ DriverTypeOK /\ DriverCallInv /\ BatchOutputsFromSuccesses
      /\ BatchTypeOK
    BY DEF DInv, BInv, DriverTypeOK
<1>1. CASE out' = out /\ batch' = batch
    BY <1>0, <1>1 DEF BatchOutputsFromSuccesses
<1>2. CASE WriteExample1
    <2>1. result \in Results /\ batch' = batch
          /\ WriteOutputs("example1", result)
        BY <1>0, <1>2 DEF WriteExample1, DriverCallInv, allVars, batchVars
    <2>. QED BY <1>0, <2>1, ResultFields, OtherDirsWrite
<1>3. CASE WriteExample2
    <2>1. result \in Results /\ batch' = batch
        BY <1>0, <1>3 DEF WriteExample2, DriverCallInv, allVars, batchVars
    <2>2. CASE result.success
        <3>1. WriteOutputs("example2", result)
            BY <1>3, <2>2 DEF WriteExample2
        <3>. QED BY <1>0, <2>1, <3>1, ResultFields, OtherDirsWrite
    <2>3. CASE ~result.success
        BY <1>0, <1>3, <2>1, <2>3 DEF WriteExample2, BatchOutputsFromSuccesses
    <2>. QED BY <2>2, <2>3
<1>4. CASE WriteBatchResult
    BY <1>0, <1>4, BatchWrite
<1>5. CASE RunBatch
    BY <1>0, <1>5, BatchStepKeepsOutputs DEF RunBatch, driverVars
<1>6. CASE \/ ListInputs \/ StartExample1 \/ StartExample2 \/ StartExample3
           \/ CallExample("ex1run", "ex1write") \/ CallExample("ex2run", "ex2write")
           \/ EndBatch \/ EndDriver
    <2>1. out' = out /\ batch' = batch
        BY <1>6 DEF ListInputs, StartExample1, StartExample2, StartExample3,
                    CallExample, EndBatch, EndDriver, allVars, batchVars
    <2>. QED BY <1>1, <2>1
<1>7. CASE \/ DriverProcessStep
           \/ \E p \in Paths, k \in Kinds :
                 dir = "dir" /\ FsChange(p, k) /\ UNCHANGED <<batchVars, driverVars>>
           \/ \E k \in DirKinds : DirChange(k) /\ UNCHANGED driverVars
           \/ UNCHANGED everything
    <2>1. out' = out /\ batch' = batch
        BY <1>7 DEF DriverProcessStep, InnerProcessStep, DirChange, driverVars,
                    batchVars, everything, allVars
    <2>. QED BY <1>1, <2>1
<1>. QED BY <1>2, <1>3, <1>4, <1>5, <1>6, <1>7 DEF DriverNext, DriverStep

LEMMA DriverNextInv == DInv /\ [DriverNext]_everything => DInv'
BY DriverBInv, DriverTypeNext, DriverCallNext, OutputsNext DEF DInv

(***************************************************************************)
(* The driver's state keeps its types for every value of the constants:   *)
(* the output directories only ever hold names the f-strings build, each  *)
(* holding a part of a ProcessingResult or what an earlier run left.       *)
(***************************************************************************)
THEOREM DriverTypeCorrect == DriverSpec => []DriverTypeOK
<1>1. DInv => DriverTypeOK
    BY DEF DInv
<1>. QED BY DriverInitInv, DriverNextInv, <1>1, PTL DEF DriverSpec

(***************************************************************************)
(* For every value of the constants, every file in example3_batch that an  *)
(* earlier run did not leave holds a part of a successful result that      *)
(* process_directory returned: the `if r.success` of Example 3's loop, and *)
(* the directory names of the f-strings, keep failed results and the       *)
(* outputs of Examples 1 and 2 out of it.                                  *)
(***************************************************************************)
THEOREM BatchOutputsFromSuccessesHolds == DriverSpec => []BatchOutputsFromSuccesses
<1>1. DInv => BatchOutputsFromSuccesses
    BY DEF DInv
<1>. QED BY DriverInitInv, DriverNextInv, <1>1, PTL DEF DriverSpec

=============================================================================
