-------------------------- MODULE ProcessRefinement --------------------------
(***************************************************************************)
(* The three steps of process in DoclingProcessor against the atomic       *)
(* ProcessAtomic.  The refinement mapping reads the processor's existence  *)
(* and the image mode of the config object it refers to; the file system   *)
(* and the last result are the same variables.  The steps before the one   *)
(* that sets result (a valid validate_file, a successful conversion) map   *)
(* to stuttering steps, and the step that sets it to Process(cur).        *)
(***************************************************************************)
EXTENDS DoclingProcessor

(***************************************************************************)
(* The file system is quiet while a process call runs: other programs only *)
(* change it between calls.  Everything else is as in Next.                *)
(***************************************************************************)
QuietNext ==
    \/ \E o \in Objs : Create(o) \/ UpdateConfig(o)
    \/ \E o \in Objs, c \in Configs : MutateConfig(o, c)
    \/ \E p \in Paths : Validate(p)
    \/ ProcessStep
    \/ \E p \in Paths, k \in Kinds : pc = "idle" /\ FsChange(p, k)

QuietSpec == Init /\ [][QuietNext]_vars

Atomic == INSTANCE ProcessAtomic WITH ready <- created, mode <- heap[procCfg].mode

(***************************************************************************)
(* process behaves as one atomic step (spec section 8: a non-existent or   *)
(* non-PDF path gets "Invalid file"; only a valid PDF gets a success, with *)
(* the processor's image mode): validate_file, the converter call and the  *)
(* stat() in _extract_metadata see the same file system.                   *)
(***************************************************************************)
AtomicProcess == Atomic!Spec

=============================================================================
