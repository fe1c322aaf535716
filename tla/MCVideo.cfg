SPECIFICATION Spec
CONSTANTS
    MAX_TERMINALS = 3
    Glyphs = {"x", "y"}
    Blank = Blank
    SwitchWhileDrawing = FALSE
    VidmapInBackground = FALSE
    FaultInBackground = FALSE
INVARIANTS
    OwnScreens
    MappedToOwnScreen
PROPERTIES
    SwitchKeepsScreens
