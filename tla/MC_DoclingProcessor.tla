------------------------ MODULE MC_DoclingProcessor ------------------------
(***************************************************************************)
(* A small instance of DoclingProcessor: one caller-made config object     *)
(* besides the default one, engine names that differ only in case or are   *)
(* unknown, an image mode in the wrong case, and two paths whose suffixes  *)
(* are an upper-case .PDF and a non-PDF.                                   *)
(***************************************************************************)
EXTENDS DoclingProcessor

MCEngines == {"rapidocr", "RapidOCR", "easyocr"}
MCModes == {"embedded", "EMBEDDED"}
MCSuffixOf == [p \in Paths |-> IF p = CHOOSE q \in Paths : TRUE
                                 THEN ".PDF" ELSE ".txt"]
MCLower == [s \in {"rapidocr", "RapidOCR", "easyocr", ".pdf", ".PDF", ".txt"} |->
               CASE s = "RapidOCR" -> "rapidocr"
                 [] s = ".PDF"     -> ".pdf"
                 [] OTHER          -> s]
=============================================================================
