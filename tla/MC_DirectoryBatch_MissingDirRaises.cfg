CONSTANTS
    Objs = {dflt}
    DefaultObj = dflt
    Paths = {"a.pdf", "b.PDF", ".pdf"}
    PdfGlob = {"a.pdf", ".pdf"}
    Engines = {"rapidocr"}
    Modes = {"embedded"}
    SuffixOf <- MCSuffixOf
    Lower <- MCLower
    CallerMutates = FALSE
    NoConverter = NoConverter
    NoContent = NoContent
    NoResult = NoResult
SPECIFICATION BatchSpec
PROPERTIES MissingDirRaises
