---------------------------- MODULE ProcessAtomic ----------------------------
(***************************************************************************)
(* What DoclingPDFProcessor.process promises its caller (spec sections 5,  *)
(* 7 and 8), as one atomic step: the call looks at the file once, and a    *)
(* path that does not exist, is not a regular file or has no .pdf suffix   *)
(* gets the fixed "Invalid file" result; a valid PDF gets a success,      *)
(* rendered with the processor's image mode, or, when the converter       *)
(* raises, an "exception" result.  Constructing the processor, replacing  *)
(* or assigning its config is one step that may change the image mode;    *)
(* other programs change the file system between calls.                    *)
(***************************************************************************)
EXTENDS DoclingData

VARIABLES
    ready,    \* a processor exists
    mode,     \* the image_export_mode of the processor's config
    fs,       \* fs[p]: the kind of file system entry at p
    result    \* the ProcessingResult the last process call returned

avars == <<ready, mode, fs, result>>

\* The validation contract (spec section 4.2): the path exists and is a
\* regular file, and its extension is the allowed one, .pdf, compared
\* without regard to case.
AcceptedPdf(p) == fs[p] = "file" /\ Lower[SuffixOf[p]] = ".pdf"

\* The results process(p) may return in the current state.
Outcomes(p) ==
    IF AcceptedPdf(p)
       THEN {Fail(p, "exception")} \cup
            {[path |-> p, success |-> TRUE, error |-> "none",
              content |-> [mode |-> mode, complete |-> c]] :
                 c \in IF mode \in ImageRefModes THEN BOOLEAN ELSE {}}
       ELSE {Fail(p, "Invalid file")}

Init ==
    /\ ready = FALSE
    /\ mode \in Modes
    /\ fs \in [Paths -> Kinds]
    /\ result = NoResult

\* A processor is constructed, or its config replaced or assigned.
Configure ==
    /\ ready' \in {ready, TRUE}
    /\ mode' \in Modes
    /\ UNCHANGED <<fs, result>>

Process(p) ==
    /\ ready
    /\ result' \in Outcomes(p)
    /\ UNCHANGED <<ready, mode, fs>>

EnvChange(p, k) ==
    /\ k # fs[p]
    /\ fs' = [fs EXCEPT ![p] = k]
    /\ UNCHANGED <<ready, mode, result>>

Next ==
    \/ Configure
    \/ \E p \in Paths : Process(p)
    \/ \E p \in Paths, k \in Kinds : EnvChange(p, k)

Spec == Init /\ [][Next]_avars

=============================================================================
