SPECIFICATION Spec
CONSTANTS
    config = config
    x = x
    Paths <- OneFile
    Names <- BothNames
    Values = {x}
    Zero = Zero
    Absent = Absent
    NoIni = NoIni
    Nothing = Nothing
    NoName = NoName
    NoFile = NoFile
    NoArea = NoArea
    Bundled <- OneShipped
    Cached = FALSE
    BundleWritable = FALSE
    MaxLen = 1
    TextSlots = {0, 1}
    MaxBin = 1
    Ops = {"ini", "text", "buffer", "delete", "reset", "crash", "binRead", "binWrite", "binUpdate", "binRewrite"}
INVARIANTS
    TypeOK
    IniAgreesWithFile
PROPERTY
    OneDirectory
