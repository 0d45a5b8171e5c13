SPECIFICATION FeedSpec
CONSTANTS
  s1 = s1
  s2 = s2
  Symbols = {s1, s2}
  MaxGen = 1
  MaxQueue = 3
  Env = {"restart", "earlysub", "race", "senderror"}
INVARIANT TypeOK
INVARIANT LastListWatched
PROPERTY RoundsRestore
