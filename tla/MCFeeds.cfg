SPECIFICATION Spec
CONSTANTS
    Feed = {"dam_constraints", "ruc_constraints", "resource_outages", "constraint_history",
            "script_dam", "script_rtm", "script_lmp5", "gis", "tpit", "deck", "notices",
            "offers", "lt_prices", "weather", "renewables", "load", "constraints", "rtd",
            "rtm", "points", "outage_plan"}
    Doc <- Documents
    PageSize = 1
    OldDocs = 1
    Span = 2
    Loaded = {1}
    Unstamped = {2}
    MaxDocs = 3
    MaxRuns = 2
    MaxFaults = 1
    Back = 2
    LastDay = 4
INVARIANTS
    TypeOK
    NewestStands
    EditionsKept
CHECK_DEADLOCK FALSE
