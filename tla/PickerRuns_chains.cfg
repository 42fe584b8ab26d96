SPECIFICATION FairSpec
CONSTANTS
    Job = {j1, j2}
    None = None
    Error = Error
    MaxStarts = 2
INVARIANT TypeOK
INVARIANT OneChain
PROPERTY OpensTheLatest
PROPERTY RunsComeToAnEnd
PROPERTY ButtonComesBack
