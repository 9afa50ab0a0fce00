SPECIFICATION Spec
CONSTANTS
  MaxRates = {48000, 176400}
  MaxBits = {24}
  DsdRates = {{}, {88200, 176400}, {88200, 352800}}
  Names = {"none", "hw", "aplay"}
  Formats = {"S16LE", "S24LE4", "DSD_U8", "FLAC"}
  Rates = {32000, 44100, 192000, 352800}
  Depths = {16, 32}
  Channels = {2}
INVARIANT CounterSettles
INVARIANT AnnouncedPlays
INVARIANT ReadyIsGapless
