\* Two runners started fresh on one file; a barrier of one of them times out.
CONSTANTS
    alice = alice
    bob = bob
    carol = carol
    Runners <- MCTwo
    Leader = alice
    Configs = {"this"}
    OldFolders <- MCOldFolders
    Fresh <- MCFresh
    Faults = {"timeout"}
    MaxAttempts = 3
SPECIFICATION Spec
CHECK_DEADLOCK FALSE
PROPERTIES
    RelaunchedIsTakenBack
