CONSTANTS
    None = None
    Root = "panel"
    Kids <- MCKids
    Kind <- MCKind
    Id <- MCId
    Switched <- MCSwitched
    Folded <- MCFolded
    MaxProgram = 2
    Keys <- MCKeys
    LiveTexts <- MCLiveTexts
    Growths = {0, 40}
    MaxLen = 2
    BoxWidth = 1
    Low = 0
    High = 1
    BarLength = 130
    Places = {1, 60, 129}
    LimitPairs <- MCLimitPairs
    Letters = {"a"}
    NewLine = "n"
    LetterWidth = 2
    InnerWidth = 5
    BoxHeight = 35
    BoxTop = 20
    Columns = {0, 4}
    Rows = {0, 20}
    Texts <- MCTexts
    MaxText = 4
    MaxInputs = 3
    Lines = {"a", "b"}
    EmptyLine = ""
    HistSize = 3
    MaxEntered = 4
    NoControl = NoControl
    Main = "main"
    Parts = {"inner", "fold", "bar", "push", "field"}
    PartKind <- MCPartKind
    Widths = {150}
    MaxParts = 4
    MaxChanges = 1
    ItemIds = {0, 1}
    NoItem = NoItem
    Entries <- MCEntries
    NoFile = NoFile
    ListHeight = 40
    ClickRows = {6, 20, 36}
    MaxClicks = 4
INIT Init
NEXT Next
VIEW MCView
INVARIANTS
    TabVisitsAll
    ShowsLive
    CursorInView
    FieldShowsValue
    ArrowsTell
    ScrollTells
    CaretInText
    CaretShown
    HistoryKept
    FoundWhereShown
    ListboxAgrees
    FileIsHere
PROPERTIES
    CallbackOfEnabled
    LayoutSettles
\* A field whose insertion point is lost stops the program.
CHECK_DEADLOCK FALSE
