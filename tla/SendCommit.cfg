SPECIFICATION Spec
CONSTANTS
    Users = {u1}
    Agents = {a1}
    Names = {x}
    Cookies = {c}
    Values = {1, 2}
    Globals = {g1, g2}
    None = None
    Unsaid = Unsaid
    UserSends = 1
    AgentSends = 2
    MaxSteps = 1
    MaxEdits = 1
SYMMETRY Symmetric
CHECK_DEADLOCK FALSE
INVARIANTS SaidIsRead
PROPERTIES CommitTouchesOwn AgentsAreInvisible
