----------------------------- MODULE BatchProofs -----------------------------
(***************************************************************************)
(* Proofs about process_directory (DirectoryBatch) for every value of the  *)
(* constants: the results list it builds follows the glob listing, while  *)
(* the process calls it makes and the file system interleave.             *)
(***************************************************************************)
EXTENDS DirectoryBatch, DoclingProcessorProofs, FiniteSetTheorems

(***************************************************************************)
(* BatchFollowsListing is not inductive: CollectResult appends the result  *)
(* of the call in progress, so that call must be known to be on the entry  *)
(* at the loop's position, and its result, once process has returned, to  *)
(* be for that entry.  Before the listing exists nothing has been          *)
(* collected.                                                              *)
(***************************************************************************)
BatchCallInv ==
    /\ bpc \in {"idle", "glob"} => idx = 1 /\ batch = <<>>
    /\ waiting => /\ bpc = "loop"
                  /\ idx <= Len(listing)
                  /\ cur = listing[idx]
    /\ waiting /\ pc = "idle" => result \in Results /\ result.path = cur

BInv == WFInv /\ BatchTypeOK /\ BatchFollowsListing /\ BatchCallInv

\* The facts about the glob's matches the proofs below need.
LEMMA GlobFacts == PdfGlob \subseteq Paths /\ IsFiniteSet(PdfGlob)
BY GlobAssumption, Zenon

\* Every order in which glob may yield the matching entries is a sequence
\* of names matching "*.pdf".
LEMMA GlobListing ==
    ASSUME NEW S \in SUBSET PdfGlob, NEW s \in SetToSeqs(S)
    PROVE  s \in Seq(PdfGlob)
<1>1. IsFiniteSet(PdfGlob)
    BY GlobFacts
<1>2. IsFiniteSet(S)
    BY <1>1, FS_Subset
<1>3. Cardinality(S) \in Nat
    BY <1>2, FS_CardinalityType
<1>4. s \in [1..Cardinality(S) -> PdfGlob]
    BY DEF SetToSeqs
<1>. QED BY <1>3, <1>4

\* The entry at the loop's position is a path process may be called on.
LEMMA ListedIsPath ==
    ASSUME BatchTypeOK, idx <= Len(listing)
    PROVE  listing[idx] \in PdfGlob /\ listing[idx] \in Paths
<1>1. idx \in 1..Len(listing)
    BY DEF BatchTypeOK
<1>2. listing[idx] \in PdfGlob
    BY <1>1 DEF BatchTypeOK
<1>. QED BY <1>2, GlobFacts

LEMMA BatchInitInv == BatchInit => BInv
<1> SUFFICES ASSUME BatchInit PROVE BInv
    OBVIOUS
<1>1. WFInv /\ TypeOK
    BY InitWF DEF BatchInit, WFInv, Inv
<1>2. BatchTypeOK
    <2>1. <<>> \in Seq(PdfGlob) /\ <<>> \in Seq(Results)
        OBVIOUS
    <2>2. /\ dir \in DirKinds /\ bpc = "idle" /\ listing = <<>>
          /\ idx = 1 /\ waiting = FALSE /\ batch = <<>>
        BY DEF BatchInit
    <2>3. idx \in 1..(Len(listing) + 1)
        BY <2>2
    <2>. QED BY <1>1, <2>1, <2>2, <2>3, Zenon DEF BatchTypeOK
<1>3. BatchFollowsListing /\ BatchCallInv
    BY DEF BatchInit, BatchFollowsListing, BatchCallInv
<1>. QED BY <1>1, <1>2, <1>3 DEF BInv

\* The steps of process_directory and of the file system keep what the
\* processor's own invariant says.
LEMMA BatchWF == BInv /\ [BatchNext]_allVars => WFInv'
<1> SUFFICES ASSUME BInv, [BatchNext]_allVars PROVE WFInv'
    OBVIOUS
<1>0. WFInv /\ BatchTypeOK
    BY DEF BInv
<1>1. CASE \E k \in DirKinds : DirChange(k)
    BY <1>0, <1>1 DEF DirChange, WFInv, Inv, TypeOK, ConverterOcrValid,
                      ResultsWellFounded, CallInv, procVars, callVars, Kinds
<1>2. CASE \E o \in Objs : Create(o) /\ bpc = "idle" /\ UNCHANGED batchVars
    BY <1>0, <1>2, NextWF DEF Next
<1>3. CASE CallProcess
    <2>1. listing[idx] \in Paths
        BY <1>0, <1>3, ListedIsPath DEF CallProcess
    <2>2. \E p \in Paths : Validate(p)
        BY <1>3, <2>1 DEF CallProcess
    <2>. QED BY <1>0, <2>2, NextWF DEF Next
<1>4. CASE CheckDir \/ Glob \/ CollectResult \/ ReturnResults
    <2>1. UNCHANGED vars
        BY <1>4 DEF CheckDir, Glob, CollectResult, ReturnResults
    <2>. QED BY <1>0, <2>1, NextWF
<1>5. CASE InnerProcessStep
    BY <1>0, <1>5, NextWF DEF InnerProcessStep, Next
<1>6. CASE \E p \in Paths, k \in Kinds :
              dir = "dir" /\ FsChange(p, k) /\ UNCHANGED batchVars
    BY <1>0, <1>6, NextWF DEF Next
<1>7. CASE UNCHANGED allVars
    BY <1>0, <1>7, NextWF DEF allVars
<1>. QED
    BY <1>1, <1>2, <1>3, <1>4, <1>5, <1>6, <1>7 DEF BatchNext, BatchStep

LEMMA BatchNextInv == BInv /\ [BatchNext]_allVars => BInv'
<1> SUFFICES ASSUME BInv, [BatchNext]_allVars
             PROVE  BatchTypeOK' /\ BatchFollowsListing' /\ BatchCallInv'
    BY BatchWF DEF BInv
<1>0. WFInv /\ BatchTypeOK /\ BatchFollowsListing /\ BatchCallInv
    BY DEF BInv
<1>1. TypeOK'
    BY BatchWF DEF WFInv, Inv
<1>. USE DEF BatchTypeOK, BatchFollowsListing, BatchCallInv
<1>3. CASE \E o \in Objs : Create(o) /\ bpc = "idle" /\ UNCHANGED batchVars
    <2>1. UNCHANGED <<cur, pc, result>> /\ UNCHANGED batchVars
        BY <1>3 DEF Create, callVars
    <2>. QED BY <1>0, <1>1, <2>1 DEF batchVars
<1>4. CASE CheckDir
    BY <1>0, <1>1, <1>4 DEF CheckDir
<1>5. CASE Glob
    <2> DEFINE S == IF dir = "dir" THEN {p \in PdfGlob : fs[p] # "absent"}
                                   ELSE {}
    <2>1. S \in SUBSET PdfGlob
        OBVIOUS
    <2>2. \E s \in SetToSeqs(S) : listing' = s
        BY <1>5 DEF Glob
    <2>3. PICK s \in SetToSeqs(S) : listing' = s
        BY <2>2
    <2>4. listing' \in Seq(PdfGlob)
        BY <2>1, <2>3, GlobListing
    <2>5. bpc = "glob" /\ ~waiting /\ idx = 1 /\ batch = <<>>
        BY <1>0, <1>5 DEF Glob
    <2>. QED BY <1>0, <1>1, <1>5, <2>4, <2>5 DEF Glob
<1>6. CASE CallProcess
    <2>1. listing[idx] \in Paths
        BY <1>0, <1>6, ListedIsPath DEF CallProcess
    <2>2. /\ Fail(listing[idx], "Invalid file") \in Results
          /\ Fail(listing[idx], "Invalid file").path = listing[idx]
        BY <2>1, Zenon DEF Fail, Results
    <2>3. pc' = "idle" => result' = Fail(listing[idx], "Invalid file")
        <3>1. CASE ValidFile(listing[idx], fs[listing[idx]])
            BY <1>6, <3>1, Zenon DEF CallProcess, Validate
        <3>2. CASE ~ValidFile(listing[idx], fs[listing[idx]])
            BY <1>6, <3>2, Zenon DEF CallProcess, Validate
        <3>. QED BY <3>1, <3>2, Zenon
    <2>4. /\ cur' = listing[idx] /\ waiting' = TRUE
          /\ UNCHANGED <<dir, bpc, listing, idx, batch>>
          /\ bpc = "loop" /\ idx <= Len(listing)
        BY <1>6, Zenon DEF CallProcess, Validate
    <2>5. pc' = "idle" => result' \in Results /\ result'.path = cur'
        BY <2>2, <2>3, <2>4, Zenon
    <2>6. BatchTypeOK' /\ BatchFollowsListing'
        BY <1>0, <1>1, <2>4
    <2>. QED BY <1>0, <2>4, <2>5, <2>6
<1>7. CASE CollectResult
    <2>1. result \in Results /\ result.path = listing[idx]
        BY <1>0, <1>7 DEF CollectResult
    <2>2. idx \in 1..Len(listing) /\ Len(batch) = idx - 1
          /\ listing \in Seq(PdfGlob) /\ batch \in Seq(Results)
          /\ bpc = "loop"
        BY <1>0, <1>7 DEF CollectResult
    <2>3. batch' = Append(batch, result) /\ idx' = idx + 1
          /\ UNCHANGED <<listing, bpc, dir>> /\ waiting' = FALSE
        BY <1>7 DEF CollectResult
    <2>4. batch' \in Seq(Results) /\ Len(batch') = idx' - 1
        BY <2>1, <2>2, <2>3
    <2>5. \A i \in 1..Len(batch') : batch'[i].path = listing'[i]
        BY <1>0, <2>1, <2>2, <2>3
    <2>6. idx' \in 1..(Len(listing') + 1)
        BY <2>2, <2>3
    <2>7. BatchTypeOK'
        BY <1>0, <1>1, <2>2, <2>3, <2>4, <2>6, Zenon
    <2>8. BatchFollowsListing'
        BY <2>2, <2>3, <2>4, <2>5
    <2>9. BatchCallInv'
        BY <2>2, <2>3
    <2>. QED BY <2>7, <2>8, <2>9, Zenon
<1>8. CASE ReturnResults
    BY <1>0, <1>1, <1>8 DEF ReturnResults
<1>9. CASE InnerProcessStep
    <2>1. UNCHANGED batchVars /\ UNCHANGED cur
        BY <1>9 DEF InnerProcessStep, ProcessStep, Convert, ExtractMetadata
    <2>2. pc' = "idle" => result' \in Results /\ result'.path = cur
        <3>1. cur \in Paths /\ (pc = "metadata" => doc \in Contents)
            BY <1>0 DEF WFInv, Inv, TypeOK, CallInv
        <3>2. /\ Fail(cur, "exception") \in Results
              /\ Fail(cur, "exception").path = cur
            BY <3>1, Zenon DEF Fail, Results
        <3>3. CASE Convert
            <4>1. pc' = "idle" => result' = Fail(cur, "exception")
                BY <3>3 DEF Convert
            <4>. QED BY <3>2, <4>1, Zenon
        <3>4. CASE ExtractMetadata
            <4>1. \/ result' = [path |-> cur, success |-> TRUE, error |-> "none",
                                content |-> doc]
                  \/ result' = Fail(cur, "exception")
                BY <3>4 DEF ExtractMetadata
            <4>2. doc \in Contents
                BY <3>1, <3>4 DEF ExtractMetadata
            <4>3. /\ [path |-> cur, success |-> TRUE, error |-> "none",
                      content |-> doc] \in Results
                  /\ [path |-> cur, success |-> TRUE, error |-> "none",
                      content |-> doc].path = cur
                BY <3>1, <4>2, Zenon DEF Results
            <4>. QED BY <3>2, <4>1, <4>3, Zenon
        <3>. QED BY <1>9, <3>3, <3>4 DEF InnerProcessStep, ProcessStep
    <2>3. /\ dir' = dir /\ bpc' = bpc /\ listing' = listing /\ idx' = idx
          /\ waiting' = waiting /\ batch' = batch /\ cur' = cur
        BY <2>1 DEF batchVars
    <2>4. BatchTypeOK' /\ BatchFollowsListing'
        BY <1>0, <1>1, <2>3
    <2>5. BatchCallInv'
        BY <1>0, <2>2, <2>3
    <2>. QED BY <2>4, <2>5, Zenon
<1>10. CASE \E p \in Paths, k \in Kinds :
               dir = "dir" /\ FsChange(p, k) /\ UNCHANGED batchVars
    BY <1>0, <1>1, <1>10 DEF FsChange, batchVars, callVars
<1>11. CASE \E k \in DirKinds : DirChange(k)
    BY <1>0, <1>1, <1>11 DEF DirChange, callVars
<1>12. CASE UNCHANGED allVars
    BY <1>0, <1>1, <1>12 DEF allVars, vars, batchVars, callVars
<1>. QED
    BY <1>3, <1>4, <1>5, <1>6, <1>7, <1>8, <1>9, <1>10, <1>11, <1>12
       DEF BatchNext, BatchStep

(***************************************************************************)
(* process_directory's local state keeps its types through every           *)
(* interleaving of its loop, the process calls it makes and changes to the *)
(* directory and its entries: the listing is a sequence of names matching  *)
(* "*.pdf" and the loop index stays within one past its end.               *)
(***************************************************************************)
THEOREM BatchTypeCorrect == BatchSpec => []BatchTypeOK
<1>1. BInv => BatchTypeOK BY DEF BInv
<1>2. QED BY BatchInitInv, BatchNextInv, <1>1, PTL DEF BatchSpec

(***************************************************************************)
(* Spec section 8's "N matching files give exactly N results", for every   *)
(* value of the constants: process_directory's results are, position by   *)
(* position, those of the entries glob listed, and when it returns there  *)
(* is one per listed entry, whatever the file system did meanwhile.        *)
(***************************************************************************)
THEOREM BatchFollowsListingHolds == BatchSpec => []BatchFollowsListing
<1>1. BInv => BatchFollowsListing BY DEF BInv
<1>2. QED BY BatchInitInv, BatchNextInv, <1>1, PTL DEF BatchSpec

=============================================================================
