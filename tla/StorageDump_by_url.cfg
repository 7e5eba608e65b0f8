SPECIFICATION DumpSpec
CONSTANTS
    Urls <- MCUrls
    Site <- MCSite
    Pairs <- MCPairs
INVARIANT RestoresItsOrigin
CHECK_DEADLOCK FALSE
