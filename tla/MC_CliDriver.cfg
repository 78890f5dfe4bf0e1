CONSTANTS
    Objs = {dflt, custom}
    DefaultObj = dflt
    CustomObj = custom
    StaleOutputs = {"example3_batch/x.md"}
    EarlierRun = EarlierRun
    Paths = {"x.pdf", "x_metadata.pdf", "notes.txt"}
    PdfGlob = {"x.pdf", "x_metadata.pdf"}
    Engines = {"rapidocr"}
    Modes = {"embedded"}
    SuffixOf <- MCSuffixOf
    StemOf <- MCStemOf
    Lower <- MCLower
    CallerMutates = FALSE
    NoConverter = NoConverter
    NoContent = NoContent
    NoResult = NoResult
SPECIFICATION DriverSpec
INVARIANTS DriverTypeOK BatchOutputsFromSuccesses
