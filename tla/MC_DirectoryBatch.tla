------------------------- MODULE MC_DirectoryBatch -------------------------
(***************************************************************************)
(* One directory with three entries: "a.pdf", "b.PDF" and the hidden       *)
(* ".pdf", each of which may be a file, a directory, a dangling link or    *)
(* nothing; the processor is built from the default config.               *)
(***************************************************************************)
EXTENDS DirectoryBatch

MCSuffixOf == [p \in Paths |-> CASE p = "a.pdf" -> ".pdf"
                                 [] p = "b.PDF" -> ".PDF"
                                 [] OTHER       -> ""]
MCLower == [s \in {"rapidocr", ".pdf", ".PDF", ""} |->
               IF s = ".PDF" THEN ".pdf" ELSE s]
=============================================================================
