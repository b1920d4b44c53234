SPECIFICATION Spec

CONSTANTS
    MaxText = 4
    Balanced = 3
    Cap = 9
    Marker = 1
    MaxEvents = 20
    Formats = {"claude", "codex", "codex_old", "gemini", "qwen", "grok", "kimi", "kimi_migrated", "opencode"}
    Asked = {1}
    Sizes = {1, 5}
    Returns = {5}
    MaxTurns = 4
    MaxDeaths = 1
    CompactsMidPlan = FALSE

INVARIANT TurnsCarried
INVARIANT EvidenceIsHonest
INVARIANT ProjectionIsWhole
