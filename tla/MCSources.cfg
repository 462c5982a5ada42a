SPECIFICATION Spec
CONSTANTS
    None = None
    Off = Off
    Attempts = {a1, a2, a3}
    Mirror1 = Mirror1
    Mirror2 = Mirror2
    Mirror3 = Mirror3
    Page = Page
    Other = Other
    Public = Public
    Private = Private
CHECK_DEADLOCK FALSE
SYMMETRY Alike
INVARIANTS
    RoutesWithinPolicy
    RecordedIsSource
    DownloadsWhatWasSubmitted
    ReportsWhatItPublished
