\* Three tasks of any kind, one change of the profile.
CONSTANTS
  Tasks = {t1, t2, t3}
  Commands <- MCCommands
  Hosts <- MCHosts
  Profiles <- MCProfiles
  MaxChanges = 1
  None = None
SPECIFICATION CommandSpec
INVARIANTS
  OwnRequestUnlessRaced
  NoOrphanRequest
SYMMETRY MCSymmetry
CHECK_DEADLOCK FALSE
