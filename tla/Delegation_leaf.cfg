SPECIFICATION Spec
CONSTANTS
    Agents = {main, helper, expert}
    Strangers = {stranger}
    Allowed <- MCAllowed
    MaxDepth = 2
    Turns = {t1}
    Spawns = {s1}
    MaxFrames = 4
INVARIANT
    LeavesDoNotDelegate
