CONSTANTS
  None = None
  j1 = j1
  j2 = j2
  Job = {j1}
  Rank <- InTurn
  Stream = {"es1"}
  FeedCap = 2
  Fetch = {"f1"}
  AlertCap = 1
  Outcome = {"done"}
SPECIFICATION FairSpec
PROPERTIES
  StaleDialogsClose
  OffersPopUp
  ListSettles
  BadgeSettles
  StreamsClose
