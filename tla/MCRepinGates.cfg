SPECIFICATION Spec
CONSTANTS
    Urls = {"u", "u.git", "w"}
    Slug <- SmallSlug
    Commits = {1, 2, 3}
    Version <- SmallVersion
    Codecs = {"acadrust", "opencadcodec"}
    Shared = {"serde"}
    PluginOnly = {"which"}
    NoUrl = "registry"
    HostShapes <- SmallHosts
    PluginShapes <- SmallPlugins
INVARIANTS
    TypeOK
    OneCodec
    InStepWithHost
    EarlyStopNamed
CHECK_DEADLOCK FALSE
