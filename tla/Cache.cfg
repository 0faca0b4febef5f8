\* Two uploads, durations of five bits, ages up to 16 ticks.
CONSTANTS
  A = A
  B = B
  NoFile = NoFile
  Forever = Forever
  Uploads <- MCUploads
  Ttls <- MCTtls
  Units <- MCUnits
  MaxInt = 15
  MaxAge = 16
SPECIFICATION FairSpec
INVARIANTS
  LivesItsTtl
  StaleWindow
PROPERTY StaleDies
