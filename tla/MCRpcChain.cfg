\* Requests through the chain: an MCP client, the GUI and the CLI, a crash, the registry.
SPECIFICATION FairSpec
CONSTANTS
    codex = codex
    flood = flood
    poll = poll
    gui = gui
    cli = cli
    other = other
    probe = probe
    r1 = r1
    r2 = r2
    r3 = r3
    r4 = r4
    a1 = a1
    a2 = a2
    a3 = a3
    Parties <- MCParties
    MaxCrashes = 1
    DiscardLimit = 3
    None = None
    Unbound = Unbound
    Broken = Broken
    Jobs <- MCJobs
    Adds <- MCAdds
    NameOf <- MCNames
    TooLarge <- MCTooLarge
    Scripts <- MCScripts
INVARIANTS
    TypeOK
    AnswersMatchLines
    DefiniteAnswers
    RegistryIsKept
PROPERTIES
    CallSpec
    RequestsEnd
CHECK_DEADLOCK FALSE
