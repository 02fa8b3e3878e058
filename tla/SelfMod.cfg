SPECIFICATION Spec
CONSTANTS
    s1 = s1
    s2 = s2
    apt = apt
    npm = npm
    mcp = mcp
    again = again
    Sessions = {s1, s2}
    Installs = {apt, npm}
    Servers = {mcp}
    Rebuilds = {again}
    SessionOf <- MCSessionOf
    Budgets <- MCBudgets
INVARIANT IInv
PROPERTY Reported
