--------------------------- MODULE DirectoryBatch ---------------------------
(***************************************************************************)
(* DoclingPDFProcessor.process_directory (processor.py 301-315) driving    *)
(* the process steps of DoclingProcessor over the entries of one           *)
(* directory, while other programs change the directory and its entries.  *)
(*                                                                         *)
(* process_directory checks dir_path.exists() and is_dir() and raises      *)
(* ValueError otherwise; then dir_path.glob("*.pdf") lists the directory   *)
(* once (pathlib reads the whole scandir listing before yielding) and      *)
(* yields, in the listing's order, every entry whose name matches "*.pdf"  *)
(* case-sensitively, whatever the entry is: a regular file, a directory,   *)
(* a dangling symbolic link.  On a path that is no longer a directory      *)
(* glob yields nothing.  Each yielded path is processed in turn and its    *)
(* result appended.                                                        *)
(***************************************************************************)
EXTENDS DoclingProcessor, SequencesExt

CONSTANTS
    PdfGlob      \* the entries whose names match the pattern "*.pdf"

\* A name matching "*.pdf" ends in ".pdf", so its suffix is ".pdf", or it is
\* the hidden name ".pdf", whose suffix is empty.
ASSUME GlobAssumption ==
    /\ PdfGlob \subseteq Paths
    /\ \A p \in PdfGlob : SuffixOf[p] \in {".pdf", ""}
    /\ \A p \in Paths : SuffixOf[p] = ".pdf" => p \in PdfGlob
    /\ IsFiniteSet(PdfGlob)

DirKinds == {"dir", "absent", "file"}

VARIABLES
    dir,       \* what is at directory_path
    bpc,       \* where process_directory is
    listing,   \* the paths glob yields, in order
    idx,       \* the loop's position in listing
    waiting,   \* process(listing[idx]) has been called and not returned
    batch      \* the results list being built

batchVars == <<dir, bpc, listing, idx, waiting, batch>>
allVars == <<vars, batchVars>>

BatchTypeOK ==
    /\ TypeOK
    /\ dir \in DirKinds
    /\ bpc \in {"idle", "glob", "loop", "done", "raised"}
    /\ listing \in Seq(PdfGlob)
    /\ idx \in 1..(Len(listing) + 1)
    /\ waiting \in BOOLEAN
    /\ batch \in Seq(Results)

BatchInit ==
    /\ Init
    /\ dir \in DirKinds
    /\ dir # "dir" => fs = [p \in Paths |-> "absent"]
    /\ bpc = "idle"
    /\ listing = <<>>
    /\ idx = 1
    /\ waiting = FALSE
    /\ batch = <<>>

(***************************************************************************)
(* process_directory(directory_path): the existence / is_dir check.        *)
(***************************************************************************)
CheckDir ==
    /\ created
    /\ bpc = "idle"
    /\ bpc' = IF dir = "dir" THEN "glob" ELSE "raised"
    /\ UNCHANGED <<vars, dir, listing, idx, waiting, batch>>

\* Mutant of Glob: the pattern is ignored and every entry is listed.
GlobEveryEntry ==
    /\ bpc = "glob"
    /\ \E s \in SetToSeqs(IF dir = "dir" THEN {p \in Paths : fs[p] # "absent"}
                                         ELSE {}) :
          listing' = s
    /\ bpc' = "loop"
    /\ UNCHANGED <<vars, dir, idx, waiting, batch>>

(***************************************************************************)
(* The first iteration of `for pdf_file in dir_path.glob("*.pdf")`: one     *)
(* scandir listing, in an order the file system chooses, of the existing   *)
(* entries (dangling links included) whose names match.                    *)
(***************************************************************************)
Glob ==
    /\ bpc = "glob"
    /\ \E s \in SetToSeqs(IF dir = "dir"
                             THEN {p \in PdfGlob : fs[p] # "absent"}
                             ELSE {}) :
          listing' = s
    /\ bpc' = "loop"
    /\ UNCHANGED <<vars, dir, idx, waiting, batch>>

(***************************************************************************)
(* Loop body, first half: self.process(str(pdf_file)) is called.           *)
(***************************************************************************)
CallProcess ==
    /\ bpc = "loop"
    /\ ~waiting
    /\ idx <= Len(listing)
    /\ Validate(listing[idx])
    /\ waiting' = TRUE
    /\ UNCHANGED <<dir, bpc, listing, idx, batch>>

\* Mutant of CollectResult: only successful results are appended.
CollectSuccessOnly ==
    /\ waiting
    /\ pc = "idle"
    /\ batch' = IF result.success THEN Append(batch, result) ELSE batch
    /\ idx' = idx + 1
    /\ waiting' = FALSE
    /\ UNCHANGED <<vars, dir, bpc, listing>>

(***************************************************************************)
(* Loop body, second half: process returned; results.append(result).      *)
(***************************************************************************)
CollectResult ==
    /\ waiting
    /\ pc = "idle"
    /\ batch' = Append(batch, result)
    /\ idx' = idx + 1
    /\ waiting' = FALSE
    /\ UNCHANGED <<vars, dir, bpc, listing>>

\* The loop is exhausted: return results.
ReturnResults ==
    /\ bpc = "loop"
    /\ ~waiting
    /\ idx > Len(listing)
    /\ bpc' = "done"
    /\ UNCHANGED <<vars, dir, listing, idx, waiting, batch>>

\* Another program removes or replaces directory_path itself, with its
\* entries, or makes a new, empty directory there.
DirChange(k) ==
    /\ k # dir
    /\ dir' = k
    /\ fs' = [p \in Paths |-> "absent"]
    /\ UNCHANGED <<heap, procVars, callVars, result,
                   bpc, listing, idx, waiting, batch>>

BatchStep == CheckDir \/ Glob \/ CallProcess \/ CollectResult \/ ReturnResults

\* A step of the process call in progress, which process_directory awaits.
InnerProcessStep == ProcessStep /\ UNCHANGED batchVars

BatchNext ==
    \/ \E o \in Objs : Create(o) /\ bpc = "idle" /\ UNCHANGED batchVars
    \/ BatchStep
    \/ InnerProcessStep
    \/ \E p \in Paths, k \in Kinds :
          dir = "dir" /\ FsChange(p, k) /\ UNCHANGED batchVars
    \/ \E k \in DirKinds : DirChange(k)

BatchSpec == BatchInit /\ [][BatchNext]_allVars

-----------------------------------------------------------------------------
(***************************************************************************)
(* process_directory returns one result per path glob listed, in the       *)
(* listing's order, whatever the file system did meanwhile; while the loop *)
(* runs, the results so far are those of the listing's prefix.  This is    *)
(* spec section 8's "N matching files give exactly N results", with N     *)
(* counted when the directory was listed.                                  *)
(***************************************************************************)
BatchFollowsListing ==
    /\ Len(batch) = idx - 1
    /\ \A i \in 1..Len(batch) : batch[i].path = listing[i]
    /\ bpc = "done" => Len(batch) = Len(listing)

(***************************************************************************)
(* The docstring "Process all PDFs in the directory": when glob lists the  *)
(* directory, every entry validate_file would accept (its suffix compared  *)
(* lower-cased) is in the listing.                                         *)
(***************************************************************************)
AllPdfsListed ==
    [][Glob => {p \in Paths : ValidFile(p, fs[p])} \subseteq Range(listing')]_allVars

(***************************************************************************)
(* Spec section 8: process_directory on a missing directory raises rather  *)
(* than returning a list; so a list is only ever read from a path that is  *)
(* a directory when glob lists it.                                         *)
(***************************************************************************)
MissingDirRaises == [][Glob => dir = "dir"]_allVars

=============================================================================
