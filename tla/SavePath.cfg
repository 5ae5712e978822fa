CONSTANTS
  Files = {"a.sav", "b.sav"}
  Campaigns = {"campaign_a", "campaign_b"}
  DirOf <- MCDirOf
  Contents = {s1, s2}
  NoSave = none
  NoCampaign = nocampaign
  RecentFrom = 2
  StartFile = "a.sav"
  StartSave = s1
  MaxMtime = 4
  MaxFaults = 1
SPECIFICATION SavePathSpec
INVARIANTS ManifestsNameStoredSaves RevisionNamesOneSave
PROPERTIES PassedMeansUnmoved NewestSaveArrives
CHECK_DEADLOCK FALSE
