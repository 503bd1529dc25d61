SPECIFICATION Spec
CONSTANTS
    Word <- MCWord
    Scheme <- MCScheme
    Host <- MCHost
    Port <- MCPort
    Path <- MCPath
    Typo <- MCTypo
    MaxTypos = 1
CHECK_DEADLOCK FALSE
INVARIANTS DocumentedFormParsed ThrowsUnlessTolerated HostHeaderNamesEndpoint
