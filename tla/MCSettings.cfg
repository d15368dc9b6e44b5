SPECIFICATION SettingsSpec
CONSTANTS
    EnvOverrides <- MCEnvOverrides
    Kind <- MCKind
    Options <- MCOptions
    Defaults <- MCDefaults
    Dirs <- MCDirs
    Disks <- MCDisks
    Shells <- MCShells
    DotEnvs <- MCDotEnvs
    Absent = Absent
INVARIANTS
    LayersInOrder
    AgreeUnlessShadowed
