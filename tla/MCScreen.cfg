SPECIFICATION Spec
CONSTANTS
    NUM_COLS = 3
    NUM_ROWS = 3
    MaxLine = 3
    Letters = {"a", "o"}
    Output = {"o"}
    Prompt <- MCPrompt
    Recalled <- MCRecalled
    Completions <- MCCompletions
    StartAnywhere = FALSE
INVARIANTS
    EchoShown
    CursorOnScreen
    BlankAfterCursor
