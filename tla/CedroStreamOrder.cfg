\* The first two prompts in the other order. One symbol of text, a stream of four symbols, a timeout of two ticks.
CONSTANTS
    Order <- UsernameFirst
    Timeout = 2
    MaxText = 1
    MaxData = 4
SPECIFICATION Spec
INVARIANTS NoPromptLost
CHECK_DEADLOCK FALSE
