SPECIFICATION FairSpec
CONSTANTS
    Fetches <- MCFetches
    Urls <- MCUrls
    Bundles <- MCBundles
    Installers <- MCInstallers
    Graphs <- MCGraphs
    ByteOrder <- MCByteOrder
    MaxLocked = 3
    PinnedPaths <- MCPinnedPaths
    NodeLinks <- MCNodeLinks
    NodeVersion <- MCNodeVersion
    Pi = "pi"
    MaxPackages = 4
    MaxInstaller = 4
    Size = 2
    MaxRedirects = 2
    MaxEntries = 12
    MaxEntry = 12
    MaxTotal = 22
    MaxManifest = 12
INVARIANTS NothingLeftBehind CancelledIsUnpublished NothingInVain  VerifiedIsInstallable
PROPERTY AcquireSettles
CHECK_DEADLOCK FALSE
