--------------------------- MODULE MC_CliDriver ---------------------------
(***************************************************************************)
(* An input directory with "x.pdf" and "x_metadata.pdf", whose stems make  *)
(* the metadata output of the first and the JSON output of the second     *)
(* share a name, and a "notes.txt" that the glob must pass over.           *)
(***************************************************************************)
EXTENDS CliDriver

MCSuffixOf == [p \in Paths |-> IF p = "notes.txt" THEN ".txt" ELSE ".pdf"]
MCStemOf == [p \in Paths |-> CASE p = "x.pdf" -> "x"
                               [] p = "notes.txt" -> "notes"
                               [] OTHER -> "x_metadata"]
MCLower == [s \in {"rapidocr", ".pdf", ".txt"} |-> s]
=============================================================================
