SPECIFICATION DetectorFairSpec
CONSTANTS
  Links = {1, 2}
  Sights <- MCSights
  Rounds = {r1, r2}
  Episodes = {1, 2}
  NoLink = NoLink
  NoEpisode = NoEpisode
  DefaultSamples = 1
  PolicySamples = 2
PROPERTY OneEpisode
PROPERTY OutageIsRecorded
PROPERTY EpisodesEnd
