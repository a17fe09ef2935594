\* Two sessions that contend for one lock while maps are installed and renewed.
CONSTANTS
  Sessions = {s1, s2}
  PGs = {p1}
  MaxEpoch = 3
  MaxRenewals = 1
  NoPG = NoPG
  NoGuard = NoGuard
SPECIFICATION FairSpec
INVARIANTS TypeOK FramesSeeInstalledMap SectionsAccountedFor StartsInCurrentSection TicketsAreLive
PROPERTIES TransitionEnds
