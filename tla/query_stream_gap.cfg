SPECIFICATION Spec
CONSTANTS
    None = None
    scan = scan
    list = list
    rescan = rescan
    Queries <- MCQueries
    PageCount <- MCQueriesPageCount
    Streaming <- MCQueriesStreaming
    Resource <- MCQueriesResource
    Aborters <- MCAborters
    Window = 2
INVARIANT StreamsEveryPage
