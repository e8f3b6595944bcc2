SPECIFICATION Spec
CONSTANTS
    None = None
    Top = 6
    Images <- MCImages
    Contents <- MCContents
    Layouts <- MCLayouts
INVARIANT TypeOK
INVARIANT ViewsFresh
INVARIANT CacheCoversBody
INVARIANT ReplaysAgree
PROPERTY AnswersDirectly
