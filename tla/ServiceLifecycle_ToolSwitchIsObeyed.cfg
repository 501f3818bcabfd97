CONSTANTS
    Configs <- MCConfigs
    Contents <- MCContents
    Broken <- MCBroken
    Keyless <- MCKeyless
    Disabled <- MCDisabled
    StorageType = "s3"
    Requests = {r1}
    MaxChanges = 2
    None = None
SPECIFICATION Spec
INVARIANTS
    ToolSwitchIsObeyed
CHECK_DEADLOCK FALSE
